---- MODULE Spec2Model ----
(***************************************************************************)
(* Reconciliation of teacher/class staffing, level access and activation   *)
(* state (santillana_format/profesores_clases.py).  Text is modelled as a  *)
(* sequence of one-character strings so that normalisation, splitting and  *)
(* the class-suffix grammar are computed as the code computes them.        *)
(***************************************************************************)
EXTENDS Integers, Sequences, FiniteSets, TLC

(* ------------------------------------------------------------------ *)
(* Characters and text                                                 *)
(* ------------------------------------------------------------------ *)
LowerChars == <<"a","b","c","d","e","f","g","h","i","j","k","l","m",
                "n","o","p","q","r","s","t","u","v","w","x","y","z">>

UpperChars == <<"A","B","C","D","E","F","G","H","I","J","K","L","M",
                "N","O","P","Q","R","S","T","U","V","W","X","Y","Z">>

DigitChars == <<"0","1","2","3","4","5","6","7","8","9">>

\* precomposed accented letters and the base letter NFD leaves once the
\* combining mark (category Mn) is dropped
AccentChars == <<"á","é","í","ó","ú","ñ">>

AccentBase == <<"a","e","i","o","u","n">>

None == <<>>

Pos(s, ch) ==
    IF \E i \in 1..Len(s) : s[i] = ch
    THEN CHOOSE i \in 1..Len(s) : s[i] = ch
    ELSE 0

LowerSet == {LowerChars[k] : k \in 1..Len(LowerChars)}

UpperSet == {UpperChars[k] : k \in 1..Len(UpperChars)}

DigitSet == {DigitChars[k] : k \in 1..Len(DigitChars)}

IsLowerCh(ch) == ch \in LowerSet

IsUpperCh(ch) == ch \in UpperSet

IsDigitCh(ch) == ch \in DigitSet

IsAlnumCh(ch) == IsLowerCh(ch) \/ IsUpperCh(ch) \/ IsDigitCh(ch)

IsSpaceCh(ch) == ch \in {" ", "\t"}

DigitVal(ch) == Pos(DigitChars, ch) - 1

\* Unicode code point, the order sorted() compares strings by
CodePoint(ch) ==
    IF IsUpperCh(ch) THEN 64 + Pos(UpperChars, ch)
    ELSE IF IsLowerCh(ch) THEN 96 + Pos(LowerChars, ch)
    ELSE IF IsDigitCh(ch) THEN 47 + Pos(DigitChars, ch)
    ELSE IF ch = "\t" THEN 9
    ELSE IF ch = " " THEN 32
    ELSE IF ch = "," THEN 44
    ELSE IF ch = "-" THEN 45
    ELSE IF ch = "." THEN 46
    ELSE IF ch = ";" THEN 59
    ELSE 224 + Pos(AccentChars, ch)

ToUpperCh(ch) == IF IsLowerCh(ch) THEN UpperChars[Pos(LowerChars, ch)] ELSE ch

str_upper(t) == [i \in 1..Len(t) |-> ToUpperCh(t[i])]

RECURSIVE LStrip(_)
LStrip(t) == IF t # <<>> /\ IsSpaceCh(Head(t)) THEN LStrip(Tail(t)) ELSE t

RECURSIVE RStrip(_)
RStrip(t) ==
    IF t # <<>> /\ IsSpaceCh(t[Len(t)])
    THEN RStrip(SubSeq(t, 1, Len(t) - 1))
    ELSE t

str_strip(t) == RStrip(LStrip(t))

\* split on runs of separator characters, empty pieces dropped
RECURSIVE SplitAcc(_, _, _, _)
SplitAcc(t, seps, cur, acc) ==
    IF t = <<>>
    THEN (IF cur = <<>> THEN acc ELSE Append(acc, cur))
    ELSE IF Head(t) \in seps
         THEN SplitAcc(Tail(t), seps, <<>>,
                       IF cur = <<>> THEN acc ELSE Append(acc, cur))
         ELSE SplitAcc(Tail(t), seps, Append(cur, Head(t)), acc)

str_split(t) == SplitAcc(t, {" ", "\t"}, <<>>, <<>>)

RECURSIVE SelectNonEmpty(_)
SelectNonEmpty(parts) ==
    IF parts = <<>> THEN <<>>
    ELSE IF Head(parts) = <<>> THEN SelectNonEmpty(Tail(parts))
         ELSE <<Head(parts)>> \o SelectNonEmpty(Tail(parts))

\* unicodedata.normalize("NFD") followed by dropping category Mn
StripMarks(t) ==
    [i \in 1..Len(t) |->
        IF Pos(AccentChars, t[i]) > 0 THEN AccentBase[Pos(AccentChars, t[i])]
        ELSE t[i]]

\* re.sub(r"[^A-Za-z0-9]+", "", t)
RECURSIVE OnlyAlnum(_)
OnlyAlnum(t) ==
    IF t = <<>> THEN <<>>
    ELSE IF IsAlnumCh(Head(t)) THEN <<Head(t)>> \o OnlyAlnum(Tail(t))
         ELSE OnlyAlnum(Tail(t))

\* re.sub(r"[^a-zA-Z0-9]+", " ", t): every maximal run becomes one space
RECURSIVE CollapseNonAlnum(_, _, _)
CollapseNonAlnum(t, acc, inRun) ==
    IF t = <<>> THEN acc
    ELSE IF IsAlnumCh(Head(t))
         THEN CollapseNonAlnum(Tail(t), Append(acc, Head(t)), FALSE)
         ELSE CollapseNonAlnum(Tail(t),
                               IF inRun THEN acc ELSE Append(acc, " "), TRUE)

_normalize_course_text(value) ==
    str_upper(str_strip(CollapseNonAlnum(StripMarks(value), <<>>, FALSE)))

_normalize_value(value) ==
    str_upper(str_strip(StripMarks(str_strip(value))))

\* lexicographic order of two texts by code point
RECURSIVE TextLess(_, _)
TextLess(a, b) ==
    IF b = <<>> THEN FALSE
    ELSE IF a = <<>> THEN TRUE
    ELSE IF CodePoint(Head(a)) # CodePoint(Head(b))
         THEN CodePoint(Head(a)) < CodePoint(Head(b))
         ELSE TextLess(Tail(a), Tail(b))

(* ------------------------------------------------------------------ *)
(* Program constants                                                   *)
(* ------------------------------------------------------------------ *)
LEVEL_LETTERS == {"I", "P", "S"}

LEVEL_ID_BY_LETTER == [l \in LEVEL_LETTERS |->
    IF l = "I" THEN 38 ELSE IF l = "P" THEN 39 ELSE 40]

ALL_GRADES_BY_LEVEL == [l \in LEVEL_LETTERS |->
    IF l = "P" THEN 1..6 ELSE 1..5]

\* column name |-> (level letter, grade)
GRADE_COLUMNS ==
    {<<"I", 3>>, <<"I", 4>>, <<"I", 5>>,
     <<"P", 1>>, <<"P", 2>>, <<"P", 3>>, <<"P", 4>>, <<"P", 5>>, <<"P", 6>>,
     <<"S", 1>>, <<"S", 2>>, <<"S", 3>>, <<"S", 4>>, <<"S", 5>>}

TRUTHY_VALUES ==
    {<<"S","I">>, <<"S">>, <<"1">>, <<"X">>, <<"T","R","U","E">>,
     <<"V","E","R","D","A","D","E","R","O">>, <<"Y","E","S">>}

ESTADO_ACTIVE_VALUES ==
    {<<"A","C","T","I","V","O">>, <<"A","C","T","I","V","A">>, <<"1">>,
     <<"S","I">>, <<"T","R","U","E">>, <<"Y","E","S">>}

ESTADO_INACTIVE_VALUES ==
    {<<"I","N","A","C","T","I","V","O">>, <<"I","N","A","C","T","I","V","A">>,
     <<"0">>, <<"N","O">>, <<"F","A","L","S","E">>}

(* ------------------------------------------------------------------ *)
(* Class-name suffix grammar                                           *)
(* ------------------------------------------------------------------ *)
\* the grade-first pattern reading a two-digit grade by its last digit
MatchGradeLevel_LastDigit(tok) ==
    IF Len(tok) = 3 /\ IsDigitCh(tok[1]) /\ tok[2] \in LEVEL_LETTERS
       /\ IsUpperCh(tok[3])
    THEN <<DigitVal(tok[1]), tok[2], tok[3]>>
    ELSE IF Len(tok) = 4 /\ IsDigitCh(tok[1]) /\ IsDigitCh(tok[2])
            /\ tok[3] \in LEVEL_LETTERS /\ IsUpperCh(tok[4])
    THEN <<DigitVal(tok[2]), tok[3], tok[4]>>
    ELSE None

\* ^(\d{1,2})([IPS])([A-Z])$
MatchGradeLevel(tok) ==
    IF Len(tok) = 3 /\ IsDigitCh(tok[1]) /\ tok[2] \in LEVEL_LETTERS
       /\ IsUpperCh(tok[3])
    THEN <<DigitVal(tok[1]), tok[2], tok[3]>>
    ELSE IF Len(tok) = 4 /\ IsDigitCh(tok[1]) /\ IsDigitCh(tok[2])
            /\ tok[3] \in LEVEL_LETTERS /\ IsUpperCh(tok[4])
    THEN <<10 * DigitVal(tok[1]) + DigitVal(tok[2]), tok[3], tok[4]>>
    ELSE None

\* ^([IPS])(\d{1,2})([A-Z])$
MatchLevelGrade(tok) ==
    IF Len(tok) = 3 /\ tok[1] \in LEVEL_LETTERS /\ IsDigitCh(tok[2])
       /\ IsUpperCh(tok[3])
    THEN <<DigitVal(tok[2]), tok[1], tok[3]>>
    ELSE IF Len(tok) = 4 /\ tok[1] \in LEVEL_LETTERS /\ IsDigitCh(tok[2])
            /\ IsDigitCh(tok[3]) /\ IsUpperCh(tok[4])
    THEN <<10 * DigitVal(tok[2]) + DigitVal(tok[3]), tok[1], tok[4]>>
    ELSE None

\* result <<grade, level, section>>, None, or IndexError when the name
\* is non-empty but holds only whitespace (split()[-1] on an empty list)
IndexError == <<"IndexError">>

_parse_class_suffix(name) ==
    IF name = <<>> THEN None
    ELSE LET words == str_split(str_strip(name)) IN
         IF words = <<>> THEN IndexError
         ELSE LET token == str_upper(OnlyAlnum(words[Len(words)])) IN
              IF token = <<>> THEN None
              ELSE IF MatchGradeLevel(token) # None
                   THEN MatchGradeLevel(token)
                   ELSE MatchLevelGrade(token)

\* result <<level, grade, section>> or None
_parse_section_token(token) ==
    IF token = <<>> THEN None
    ELSE LET cleaned == str_upper(OnlyAlnum(token)) IN
         IF cleaned = <<>> THEN None
         ELSE LET p == IF MatchGradeLevel(cleaned) # None
                       THEN MatchGradeLevel(cleaned)
                       ELSE MatchLevelGrade(cleaned) IN
              IF p = None THEN None ELSE <<p[2], p[1], p[3]>>

(* ------------------------------------------------------------------ *)
(* Desired-state normaliser: spreadsheet rows -> docentes              *)
(* ------------------------------------------------------------------ *)
\* A row is a record of cell texts (dtype=str, blanks filled with ""):
\*   persona_id, curso, Estado, Secciones : text
\*   grades : [grade columns present -> text], keyed by <<level, grade>>
\*   levels : [level-general columns present -> text], keyed by level letter
NoPersona == 0 - 1

RECURSIVE DigitsToInt(_, _)
DigitsToInt(t, acc) ==
    IF t = <<>> THEN acc
    ELSE IF IsDigitCh(Head(t))
         THEN DigitsToInt(Tail(t), 10 * acc + DigitVal(Head(t)))
         ELSE DigitsToInt(Tail(t), acc)

\* re.sub(r"\D", "", str(value)) then int(); NoPersona stands for None
_parse_persona_id(value) ==
    IF \E i \in 1..Len(value) : IsDigitCh(value[i])
    THEN DigitsToInt(value, 0)
    ELSE NoPersona

\* Python truthiness of an Optional[int]
Truthy(n) == n # NoPersona /\ n # 0

_is_truthy(value) == _normalize_value(value) \in TRUTHY_VALUES

\* "True", "False" or "None" (Optional[bool])
_parse_estado(value) ==
    LET text == _normalize_value(value) IN
    IF text = <<>> THEN "None"
    ELSE IF text \in ESTADO_ACTIVE_VALUES THEN "True"
    ELSE IF text \in ESTADO_INACTIVE_VALUES THEN "False"
    ELSE IF text = <<"A">> THEN "True"
    ELSE IF text = <<"I">> THEN "False"
    ELSE "None"

StripEach(parts) == [i \in 1..Len(parts) |-> str_strip(parts[i])]

\* re.split(r"[;,]+", value), each piece stripped, empty pieces dropped
_split_courses(value) ==
    IF value = <<>> THEN <<>>
    ELSE SelectNonEmpty(StripEach(SplitAcc(value, {";", ","}, <<>>, <<>>)))

\* re.split(r"[;,\s]+", value), empty pieces dropped
_split_sections(value) ==
    IF value = <<>> THEN <<>>
    ELSE SelectNonEmpty(StripEach(
             SplitAcc(value, {";", ",", " ", "\t"}, <<>>, <<>>)))

\* the test taking every row without persona_id for the end of the table
_row_is_empty_NoPersona(row) == ~Truthy(_parse_persona_id(row.persona_id))

_row_is_empty(row) ==
    IF Truthy(_parse_persona_id(row.persona_id)) THEN FALSE
    ELSE IF _normalize_value(row.curso) # <<>> THEN FALSE
    ELSE IF _normalize_value(row.Estado) # <<>> THEN FALSE
    ELSE IF _normalize_value(row.Secciones) # <<>> THEN FALSE
    ELSE IF \E col \in DOMAIN row.grades : _is_truthy(row.grades[col])
         THEN FALSE
    ELSE IF \E col \in DOMAIN row.levels : _is_truthy(row.levels[col])
         THEN FALSE
    ELSE TRUE

\* dict level letter -> set of grades, as a function on the keys present
EmptyDict == [k \in {} |-> {}]

DictAdd(d, k, v) ==
    [x \in DOMAIN d \cup {k} |->
        IF x = k THEN (IF k \in DOMAIN d THEN d[k] \cup {v} ELSE {v})
        ELSE d[x]]

\* the extraction reading the level-general columns in every case
_extract_desired_levels_Merged(row) ==
    LET truthyGrades == {col \in DOMAIN row.grades :
                            _is_truthy(row.grades[col])}
        truthyLevels == {l \in DOMAIN row.levels : _is_truthy(row.levels[l])}
    IN  [desired_by_level |->
            [l \in {col[1] : col \in truthyGrades} \cup truthyLevels |->
                IF l \in truthyLevels THEN ALL_GRADES_BY_LEVEL[l]
                ELSE {col[2] : col \in {c \in truthyGrades : c[1] = l}}],
         grade_specific |-> truthyGrades # {}]

\* result [desired_by_level, grade_specific]
_extract_desired_levels(row) ==
    LET truthyGrades == {col \in DOMAIN row.grades :
                            _is_truthy(row.grades[col])}
        truthyLevels == {l \in DOMAIN row.levels : _is_truthy(row.levels[l])}
    IN  IF truthyGrades # {}
        THEN [desired_by_level |->
                 [l \in {col[1] : col \in truthyGrades} |->
                     {col[2] : col \in {c \in truthyGrades : c[1] = l}}],
              grade_specific |-> TRUE]
        ELSE [desired_by_level |->
                 [l \in truthyLevels |-> ALL_GRADES_BY_LEVEL[l]],
              grade_specific |-> FALSE]

\* the secciones tokens that parse, as a set of <<level, grade, section>>
ParsedSections(row) ==
    LET tokens == _split_sections(str_strip(row.Secciones)) IN
    {_parse_section_token(tokens[i]) :
        i \in {j \in 1..Len(tokens) : _parse_section_token(tokens[j]) # None}}

InvalidSections(row) ==
    LET tokens == _split_sections(str_strip(row.Secciones)) IN
    \E j \in 1..Len(tokens) : _parse_section_token(tokens[j]) = None

\* the levels of the row without its sections merged in
RowDesired_Unmerged(row) == _extract_desired_levels(row)

\* desired_by_level after the sections of the row were merged in
RowDesired(row) ==
    LET ext == _extract_desired_levels(row)
        secs == ParsedSections(row)
        base == ext.desired_by_level
    IN  IF secs = {} THEN ext
        ELSE [desired_by_level |->
                 [l \in DOMAIN base \cup {s[1] : s \in secs} |->
                     (IF l \in DOMAIN base THEN base[l] ELSE {})
                     \cup {s[2] : s \in {x \in secs : x[1] = l}}],
              grade_specific |-> TRUE]

\* the docentes one valid row contributes: one per course token
RowDocentes(row, row_num, require_curso) ==
    LET tokens == _split_courses(str_strip(row.curso))
        cursos == IF tokens = <<>> THEN << <<>> >> ELSE tokens
        des == RowDesired(row)
    IN  [i \in 1..Len(cursos) |->
            [row |-> row_num,
             persona_id |-> _parse_persona_id(row.persona_id),
             curso |-> cursos[i],
             curso_norm |-> _normalize_course_text(cursos[i]),
             desired_by_level |-> des.desired_by_level,
             grade_specific |-> des.grade_specific,
             section_filter |-> ParsedSections(row),
             estado |-> _parse_estado(row.Estado)]]

\* result [docentes, warnings, invalidos]; scanning stops at the first
\* entirely blank row
RECURSIVE LoadRows(_, _, _, _)
LoadRows(rows, idx, require_curso, acc) ==
    IF idx > Len(rows) THEN acc
    ELSE IF _row_is_empty(rows[idx]) THEN acc
    ELSE LET row == rows[idx]
             row_num == idx + 1
             persona_id == _parse_persona_id(row.persona_id)
             cursos == _split_courses(str_strip(row.curso))
         IN  IF ~Truthy(persona_id) \/ (require_curso /\ cursos = <<>>)
             THEN LoadRows(rows, idx + 1, require_curso,
                      [acc EXCEPT
                         !.warnings = Append(@, [kind |-> "falta", row |-> row_num]),
                         !.invalidos = @ + 1])
             ELSE LoadRows(rows, idx + 1, require_curso,
                      [acc EXCEPT
                         !.warnings =
                            IF InvalidSections(row)
                            THEN Append(@, [kind |-> "secciones", row |-> row_num])
                            ELSE @,
                         !.docentes = @ \o RowDocentes(row, row_num, require_curso)])

_load_docentes(rows, require_curso) ==
    LoadRows(rows, 1, require_curso,
             [docentes |-> <<>>, warnings |-> <<>>, invalidos |-> 0])

\* insertion-ordered dict persona_id -> value, kept as the sequence of
\* keys in first-insertion order plus the mapping
RECURSIVE FirstKeys(_, _)
FirstKeys(s, acc) ==
    IF s = <<>> THEN acc
    ELSE FirstKeys(Tail(s),
                   IF \E i \in 1..Len(acc) : acc[i] = Head(s) THEN acc
                   ELSE Append(acc, Head(s)))

\* the collection keeping only the levels of the first marked row of a persona
_collect_niveles_por_persona_FirstRow(docentes) ==
    LET withLevel == SelectSeq(docentes,
                         LAMBDA d : DOMAIN d.desired_by_level # {})
        keys == FirstKeys([i \in 1..Len(withLevel) |->
                              withLevel[i].persona_id], <<>>)
    IN  [keys |-> keys,
         val |-> [p \in {keys[i] : i \in 1..Len(keys)} |->
                    LET first == CHOOSE i \in 1..Len(withLevel) :
                                     /\ withLevel[i].persona_id = p
                                     /\ \A j \in 1..(i - 1) :
                                            withLevel[j].persona_id # p
                    IN  {LEVEL_ID_BY_LETTER[l] :
                            l \in DOMAIN withLevel[first].desired_by_level}]]

\* result [keys, val]: persona -> set of nivel ids; a persona whose rows
\* mark no level gets no entry
_collect_niveles_por_persona(docentes) ==
    LET withLevel == SelectSeq(docentes,
                         LAMBDA d : DOMAIN d.desired_by_level # {})
        keys == FirstKeys([i \in 1..Len(withLevel) |->
                              withLevel[i].persona_id], <<>>)
    IN  [keys |-> keys,
         val |-> [p \in {keys[i] : i \in 1..Len(keys)} |->
                    UNION {{LEVEL_ID_BY_LETTER[l] :
                               l \in DOMAIN docentes[i].desired_by_level} :
                           i \in {j \in 1..Len(docentes) :
                                     docentes[j].persona_id = p}}]]

\* result [keys, val, warnings]: the first parseable Estado of each
\* persona wins; a later different value only adds a warning
RECURSIVE CollectEstado(_, _)
CollectEstado(docentes, acc) ==
    IF docentes = <<>> THEN acc
    ELSE LET d == Head(docentes)
             p == d.persona_id
         IN  IF p = NoPersona \/ d.estado = "None"
             THEN CollectEstado(Tail(docentes), acc)
             ELSE IF p \in DOMAIN acc.val /\ acc.val[p] # d.estado
             THEN CollectEstado(Tail(docentes),
                      [acc EXCEPT !.warnings = Append(@, p)])
             ELSE CollectEstado(Tail(docentes),
                      [acc EXCEPT
                         !.keys = IF p \in DOMAIN acc.val THEN @
                                  ELSE Append(@, p),
                         !.val = [x \in DOMAIN acc.val \cup {p} |->
                                     IF x = p THEN d.estado ELSE acc.val[x]]])

\* the collection in which a later Estado replaces the kept one
_collect_estado_LastWins(docentes) ==
    LET first == CollectEstado(docentes,
                     [keys |-> <<>>, val |-> [k \in {} |-> "None"],
                      warnings |-> <<>>])
        last(p) == CHOOSE k \in 1..Len(docentes) :
                       /\ docentes[k].persona_id = p
                       /\ docentes[k].estado # "None"
                       /\ \A j \in (k + 1)..Len(docentes) :
                              docentes[j].persona_id # p
                              \/ docentes[j].estado = "None"
    IN  [first EXCEPT !.val = [p \in DOMAIN first.val |->
                                 docentes[last(p)].estado]]

_collect_estado(docentes) ==
    CollectEstado(docentes,
                  [keys |-> <<>>, val |-> [k \in {} |-> "None"],
                   warnings |-> <<>>])

(* ------------------------------------------------------------------ *)
(* Class catalog resolver and matcher                                  *)
(* ------------------------------------------------------------------ *)
\* index of the last " " of a text, 0 when there is none (rsplit(" ", 1))
LastSpace(t) ==
    IF \E k \in 1..Len(t) : t[k] = " "
    THEN CHOOSE k \in 1..Len(t) :
             t[k] = " " /\ \A m \in (k + 1)..Len(t) : t[m] # " "
    ELSE 0

BaseName(name) ==
    LET stripped == str_strip(name)
        k == LastSpace(stripped)
    IN  IF k > 0
           /\ _parse_class_suffix(SubSeq(stripped, k + 1, Len(stripped))) # None
        THEN str_strip(SubSeq(stripped, 1, k - 1))
        ELSE name

\* the descriptor of one payload item whose name parses
ClaseOf(item) ==
    LET parsed == _parse_class_suffix(item.geClase) IN
    [id |-> item.geClaseId,
     name |-> item.geClase,
     base_norm |-> _normalize_course_text(BaseName(item.geClase)),
     grade |-> parsed[1],
     level |-> parsed[2],
     section |-> parsed[3]]

\* the parsing loop of _fetch_clases over the payload: [clases, ignored]
RECURSIVE ParseClases(_, _)
ParseClases(data, acc) ==
    IF data = <<>> THEN acc
    ELSE LET item == Head(data) IN
         IF item.geClaseId = 0 \/ item.geClase = <<>>
         THEN ParseClases(Tail(data), acc)
         ELSE IF _parse_class_suffix(item.geClase) = None
         THEN ParseClases(Tail(data), [acc EXCEPT !.ignored = @ + 1])
         ELSE ParseClases(Tail(data),
                  [acc EXCEPT !.clases = Append(@, ClaseOf(item))])

_fetch_clases(data) == ParseClases(data, [clases |-> <<>>, ignored |-> 0])

\* sorted(clases, key=(name, id))
ClaseBefore(a, b) ==
    TextLess(a.name, b.name) \/ (a.name = b.name /\ a.id < b.id)

RECURSIVE InsertClase(_, _)
InsertClase(sorted, c) ==
    IF sorted = <<>> THEN <<c>>
    ELSE IF ClaseBefore(c, Head(sorted)) THEN <<c>> \o sorted
         ELSE <<Head(sorted)>> \o InsertClase(Tail(sorted), c)

RECURSIVE SortClases(_)
SortClases(clases) ==
    IF clases = <<>> THEN <<>>
    ELSE InsertClase(SortClases(SubSeq(clases, 1, Len(clases) - 1)),
                     clases[Len(clases)])

\* the filter without its section test
ClaseMatches_AnySection(docente, clase) ==
    /\ clase.base_norm = docente.curso_norm
    /\ clase.level \in DOMAIN docente.desired_by_level
    /\ (docente.grade_specific
           => clase.grade \in docente.desired_by_level[clase.level])

\* the filter one catalog class must pass for a docente
ClaseMatches(docente, clase) ==
    /\ clase.base_norm = docente.curso_norm
    /\ clase.level \in DOMAIN docente.desired_by_level
    /\ (docente.grade_specific
           => clase.grade \in docente.desired_by_level[clase.level])
    /\ (docente.section_filter # {}
           => <<clase.level, clase.grade, clase.section>>
                  \in docente.section_filter)

_match_clases(docente, clases) ==
    IF docente.curso_norm = <<>> THEN <<>>
    ELSE SelectSeq(clases, LAMBDA clase : ClaseMatches(docente, clase))

\* ascending list of a finite set of integers (sorted())
RECURSIVE SortSet(_)
SortSet(S) ==
    IF S = {} THEN <<>>
    ELSE LET m == CHOOSE x \in S : \A y \in S : x <= y
         IN  <<m>> \o SortSet(S \ {m})

\* dict helpers on functions with a partial domain
Put(f, k, v) == [x \in DOMAIN f \cup {k} |-> IF x = k THEN v ELSE f[x]]

GetSet(f, k) == IF k \in DOMAIN f THEN f[k] ELSE {}

(* ------------------------------------------------------------------ *)
(* Bounds and input pools                                              *)
(* ------------------------------------------------------------------ *)
\* rows of the spreadsheet
MaxRows == 2

\* remote calls that may fail in one behaviour
MaxFail == 1

Blank == <<>>

RowOf(pid, curso, estado, secciones, p3, s1, primaria) ==
    [persona_id |-> pid, curso |-> curso, Estado |-> estado,
     Secciones |-> secciones,
     grades |-> [c \in {<<"P", 3>>, <<"S", 1>>} |->
                    IF c = <<"P", 3>> THEN p3 ELSE s1],
     levels |-> [l \in {"P"} |-> primaria]]

\* the rows a table is built from
RowPool ==
    { \* persona 1, all of Primaria
      RowOf(<<"1">>, <<"M","a","t">>, Blank, Blank, Blank, Blank, <<"S","I">>),
      \* persona 2, P3 section A only, to be inactive
      RowOf(<<"2">>, <<"m","á","t">>, <<"I","n","a","c","t","i","v","o">>,
            <<"3","P","A">>, <<"x">>, Blank, Blank),
      \* persona 1, two course tokens, S1, to be active
      RowOf(<<"1">>, <<"M","A","T",";"," ","C","o","m">>,
            <<"A","c","t","i","v","o">>, Blank, Blank, <<"1">>, Blank),
      \* persona 2 without course: valid only where no course is required
      RowOf(<<"2">>, Blank, <<"A">>, Blank, Blank, Blank, <<"s","i">>),
      \* persona 1, two course tokens, P3 of every section
      RowOf(<<"1">>, <<"C","o","m",","," ","M","a","t">>, Blank, Blank,
            <<"X">>, Blank, Blank) }

RECURSIVE SeqsUpTo(_, _)
SeqsUpTo(S, n) ==
    IF n = 0 THEN {<<>>}
    ELSE LET shorter == SeqsUpTo(S, n - 1) IN
         shorter \cup {Append(q, x) : q \in {r \in shorter : Len(r) = n - 1},
                                      x \in S}

Tables == SeqsUpTo(RowPool, MaxRows) \ {<<>>}

\* payload of the class list: geClaseId and geClase of each item
CatalogData ==
    << [geClaseId |-> 12, geClase |-> <<"M","a","t"," ","3","P","B">>],
       [geClaseId |-> 11, geClase |-> <<"M","a","t"," ","3","P","A">>],
       [geClaseId |-> 13, geClase |-> <<"M","á","t"," ","S","1","a">>],
       [geClaseId |-> 14, geClase |-> <<"C","o","m"," ","4","P","A">>],
       [geClaseId |-> 15, geClase |-> <<"T","a","l","l","e","r">>] >>

\* what _fetch_clases makes of the payload, and the list after line 319
CatalogFetched == _fetch_clases(CatalogData)

CatalogSorted == SortClases(CatalogFetched.clases)

ClaseIds == {CatalogData[k].geClaseId : k \in 1..Len(CatalogData)}

NivelIds == {LEVEL_ID_BY_LETTER[l] : l \in LEVEL_LETTERS}

EmptyStaff == [c \in ClaseIds |-> {}]

EmptyNivel == [n \in NivelIds |-> [p \in {} |-> "None"]]

\* what the remote service holds before the run: the teacher roster of
\* every class and the roster (persona -> activo flag) of every level
RemotePool ==
    { [staff |-> EmptyStaff, nivel |-> EmptyNivel],
      [staff |-> [EmptyStaff EXCEPT ![11] = {1, 9}, ![14] = {9}],
       nivel |-> [EmptyNivel EXCEPT ![39] = [p \in {1, 2} |-> "True"]]],
      [staff |-> [EmptyStaff EXCEPT ![12] = {9}, ![13] = {1}],
       nivel |-> [EmptyNivel EXCEPT ![39] = [p \in {2} |-> "False"],
                                    ![40] = [p \in {1} |-> "True"]]] }

OptOf(dry, rem, prog, niv, est, cla, leo) ==
    [dry_run |-> dry, remove_missing |-> rem, on_progress |-> prog,
     do_niveles |-> niv, do_estado |-> est, do_clases |-> cla,
     list_estado_only |-> leo]

\* keyword arguments of the call
OptPool ==
    {OptOf(d, r, g, TRUE, TRUE, TRUE, FALSE) :
        d \in BOOLEAN, r \in BOOLEAN, g \in BOOLEAN}
    \cup {OptOf(TRUE, FALSE, FALSE, TRUE, TRUE, TRUE, TRUE),
          OptOf(FALSE, FALSE, TRUE, TRUE, TRUE, FALSE, FALSE),
          OptOf(FALSE, TRUE, TRUE, FALSE, FALSE, TRUE, FALSE)}

(* ------------------------------------------------------------------ *)
(* State                                                               *)
(* ------------------------------------------------------------------ *)
VARIABLES
    env,        \* rows, opts: the arguments of the call
    remote,     \* staff, nivel: what the remote service holds
    pc,         \* position in asignar_profesores_clases
    i,          \* index of the docente loop
    queue,      \* items the current loop still has to visit
    st,         \* locals of the run
    summary,    \* the counters returned
    warnings,   \* the warnings returned
    errors,     \* the error records returned
    calls,      \* remote calls issued so far, in order
    actions,    \* reconciliation actions decided so far, in order
    progress,   \* on_progress invocations so far
    fails,      \* failed remote calls so far
    run,        \* 1 for the first run, 2 for a re-run
    prev        \* what the first run left, once a re-run started

vars == <<env, remote, pc, i, queue, st, summary, warnings, errors, calls,
          actions, progress, fails, run, prev>>

summary0 ==
    [docentes_procesados |-> 0, docentes_invalidos |-> 0,
     docentes_sin_match |-> 0, clases_encontradas |-> 0,
     asignaciones_nuevas |-> 0, asignaciones_omitidas |-> 0,
     eliminaciones |-> 0, estado_activaciones |-> 0,
     estado_inactivaciones |-> 0, estado_omitidas |-> 0,
     niveles_asignados |-> 0, niveles_omitidos |-> 0, errores_api |-> 0]

EmptyOrdered == [keys |-> <<>>, val |-> [k \in {} |-> {}]]

st0 ==
    [docentes |-> <<>>,
     niveles_by_persona |-> EmptyOrdered,
     estado_by_persona |-> [keys |-> <<>>, val |-> [k \in {} |-> "None"]],
     estado_niveles_by_persona |-> EmptyOrdered,
     staff_cache |-> [c \in {} |-> {}],
     planned_by_class |-> [c \in {} |-> {}],
     desired_by_class |-> EmptyOrdered,
     progress_counts |-> [niveles |-> 0, estado |-> 0, asignar |-> 0,
                          eliminar |-> 0],
     activos_por_nivel |-> [n \in {} |-> {}],
     nivel_errors |-> <<>>,
     estado_changes |-> <<>>,
     clases |-> <<>>,
     docente_matches |-> <<>>,
     pending_removals |-> <<>>,
     total |-> 0]

NoPrev == [summary |-> summary0, errors |-> <<>>, calls |-> <<>>,
           actions |-> <<>>, opts |-> OptOf(TRUE, FALSE, FALSE, TRUE, TRUE,
                                            TRUE, FALSE),
           activos_por_nivel |-> [n \in {} |-> {}]]

RunInit ==
    /\ pc = "start"
    /\ i = 0
    /\ queue = <<>>
    /\ st = st0
    /\ summary = summary0
    /\ warnings = <<>>
    /\ errors = <<>>
    /\ calls = <<>>
    /\ actions = <<>>
    /\ progress = <<>>

Init ==
    /\ env \in [rows : Tables, opts : OptPool]
    /\ remote \in RemotePool
    /\ RunInit
    /\ fails = 0
    /\ run = 1
    /\ prev = NoPrev

(* ------------------------------------------------------------------ *)
(* Records of the run                                                  *)
(* ------------------------------------------------------------------ *)
\* one remote call: arg is the niveles of a level assignment, {1} or {0}
\* for an activo flag, the roster a staff listing returned
Call(op, persona_id, target, arg, ok) ==
    [op |-> op, persona_id |-> persona_id, target |-> target, arg |-> arg,
     ok |-> ok]

\* one reconciliation action: outcome is "dry-run", "ok" or "error"
Act(kind, persona_id, target, outcome) ==
    [kind |-> kind, persona_id |-> persona_id, target |-> target,
     outcome |-> outcome]

\* an error record that does not say which call failed
ErrorRec_Untyped(tipo, persona_id, target) ==
    [tipo |-> "error", persona_id |-> persona_id, target |-> target]

\* one error record; target is the nivel_id or clase_id, persona_id 0
\* where the code stores ""
ErrorRec(tipo, persona_id, target) ==
    [tipo |-> tipo, persona_id |-> persona_id, target |-> target]

Warn(kind, ref) == [kind |-> kind, ref |-> ref]

\* the counter update that leaves a failed call uncounted
Bump_SkipsErrors(s, field) ==
    IF field = "errores_api" THEN s ELSE [s EXCEPT ![field] = @ + 1]

\* the counter update that loses the omitted assignments
Bump_DropsOmitted(s, field) ==
    IF field = "asignaciones_omitidas" THEN s ELSE [s EXCEPT ![field] = @ + 1]

Bump(s, field) == [s EXCEPT ![field] = @ + 1]

Max(a, b) == IF a >= b THEN a ELSE b

ActivoArg(flag) == IF flag = "True" THEN {1} ELSE {0}

(* ------------------------------------------------------------------ *)
(* What a successful call changes at the remote service                *)
(* ------------------------------------------------------------------ *)
\* asignarNivel: a persona not yet listed on a level roster becomes
\* listed as active or inactive, or the roster is left as it was
\* (listed = "None"); the service decides
RemoteAssignNiveles(nivel, persona_id, niveles, listed) ==
    [n \in DOMAIN nivel |->
        IF n \in niveles /\ persona_id \notin DOMAIN nivel[n] /\ listed # "None"
        THEN Put(nivel[n], persona_id, listed)
        ELSE nivel[n]]

\* activarInactivar: the level roster shows the flag that was sent
RemoteSetActivo(nivel, persona_id, nivel_id, flag) ==
    [nivel EXCEPT ![nivel_id] = Put(@, persona_id, flag)]

RemoteAddStaff(staff, clase_id, persona_id) ==
    [staff EXCEPT ![clase_id] = @ \cup {persona_id}]

RemoteDeleteStaff(staff, clase_id, persona_id) ==
    [staff EXCEPT ![clase_id] = @ \ {persona_id}]

(* ------------------------------------------------------------------ *)
(* asignar_profesores_clases, step by step                             *)
(* ------------------------------------------------------------------ *)
EstadoWarnings(personas) ==
    [k \in 1..Len(personas) |-> Warn("estado_conflictivo", personas[k])]

\* lines 83-144: both loads and the initial locals
Load ==
    /\ pc = "start"
    /\ LET o == env.opts
           require_curso == o.do_clases /\ ~o.list_estado_only
           main == _load_docentes(env.rows, require_curso)
           est == _load_docentes(env.rows, FALSE)
           col == _collect_estado(est.docentes)
           niv == _collect_niveles_por_persona(main.docentes)
       IN  /\ st' = [st EXCEPT
                  !.docentes = main.docentes,
                  !.niveles_by_persona = niv,
                  !.estado_by_persona =
                      IF o.do_estado THEN [keys |-> col.keys, val |-> col.val]
                      ELSE @,
                  !.estado_niveles_by_persona =
                      IF o.do_estado
                      THEN _collect_niveles_por_persona(est.docentes)
                      ELSE @,
                  !.total = Len(niv.keys)]
           /\ warnings' =
                  IF o.do_estado
                  THEN main.warnings \o est.warnings \o EstadoWarnings(col.warnings)
                  ELSE main.warnings
           /\ summary' = [summary0 EXCEPT !.docentes_invalidos = main.invalidos]
           /\ queue' = IF o.do_niveles /\ niv.keys # <<>> /\ ~o.list_estado_only
                       THEN niv.keys ELSE <<>>
    /\ pc' = "niveles"
    /\ UNCHANGED <<env, remote, i, errors, calls, actions, progress, fails,
                   run, prev>>

\* lines 150-202: one iteration of the level loop
AssignNiveles ==
    /\ pc = "niveles" /\ queue # <<>>
    /\ LET persona_id == Head(queue)
           niveles == st.niveles_by_persona.val[persona_id]
           n == st.progress_counts.niveles + 1
       IN  /\ st' = [st EXCEPT !.progress_counts.niveles = n]
           /\ progress' = IF env.opts.on_progress
                          THEN Append(progress, <<"niveles", n, st.total>>)
                          ELSE progress
           /\ queue' = Tail(queue)
           /\ IF niveles = {}
              THEN /\ warnings' = Append(warnings, Warn("sin_niveles", persona_id))
                   /\ summary' = Bump(summary, "niveles_omitidos")
                   /\ UNCHANGED <<remote, errors, calls, actions, fails>>
              ELSE IF env.opts.dry_run
              THEN /\ summary' = Bump(summary, "niveles_asignados")
                   /\ actions' = Append(actions,
                          Act("asignar_nivel", persona_id, 0, "dry-run"))
                   /\ UNCHANGED <<remote, errors, calls, warnings, fails>>
              ELSE \E ok \in BOOLEAN, listed \in {"True", "False", "None"} :
                   /\ ok \/ (fails < MaxFail /\ listed = "None")
                   /\ fails' = IF ok THEN fails ELSE fails + 1
                   /\ calls' = Append(calls,
                          Call("asignar_nivel", persona_id, 0, niveles, ok))
                   /\ actions' = Append(actions,
                          Act("asignar_nivel", persona_id, 0,
                              IF ok THEN "ok" ELSE "error"))
                   /\ remote' = IF ok
                                THEN [remote EXCEPT !.nivel =
                                         RemoteAssignNiveles(@, persona_id,
                                                             niveles, listed)]
                                ELSE remote
                   /\ errors' = IF ok THEN errors
                                ELSE Append(errors,
                                         ErrorRec("asignar_nivel", persona_id, 0))
                   /\ summary' = IF ok THEN Bump(summary, "niveles_asignados")
                                 ELSE Bump(summary, "errores_api")
                   /\ UNCHANGED warnings
    /\ UNCHANGED <<env, pc, i, run, prev>>

\* lines 204-212: the level loop is over; decide whether Estado is synced
EnterEstado ==
    /\ pc = "niveles" /\ queue = <<>>
    /\ IF env.opts.do_estado /\ st.estado_by_persona.keys # <<>>
       THEN /\ pc' = "fetch_nivel"
            /\ queue' = SortSet(UNION {st.estado_niveles_by_persona.val[p] :
                                 p \in DOMAIN st.estado_niveles_by_persona.val})
       ELSE /\ pc' = "estado"
            /\ queue' = <<>>
    /\ st' = [st EXCEPT !.total = 0]
    /\ UNCHANGED <<env, remote, i, summary, warnings, errors, calls, actions,
                   progress, fails, run, prev>>

\* _fetch_activos_por_nivel, one level roster
FetchNivel ==
    /\ pc = "fetch_nivel" /\ queue # <<>>
    /\ LET nivel_id == Head(queue) IN
       \E ok \in BOOLEAN :
           /\ ok \/ fails < MaxFail
           /\ fails' = IF ok THEN fails ELSE fails + 1
           /\ calls' = Append(calls,
                  Call("listar_profesores_nivel", 0, nivel_id, {}, ok))
           /\ st' = IF ok
                    THEN [st EXCEPT !.activos_por_nivel =
                             Put(@, nivel_id, remote.nivel[nivel_id])]
                    ELSE [st EXCEPT !.nivel_errors =
                             Append(@, ErrorRec("listar_profesores_nivel", 0,
                                                nivel_id))]
    /\ queue' = Tail(queue)
    /\ UNCHANGED <<env, remote, pc, i, summary, warnings, errors, actions,
                   progress, run, prev>>

\* the lookup reading a persona the roster does not list as inactive
CurrentActive_AbsentInactive(activos, nivel_id, persona_id) ==
    IF nivel_id \in DOMAIN activos /\ persona_id \in DOMAIN activos[nivel_id]
    THEN activos[nivel_id][persona_id]
    ELSE "False"

\* activos_por_nivel.get(nivel_id, {}).get(persona_id)
CurrentActive(activos, nivel_id, persona_id) ==
    IF nivel_id \in DOMAIN activos /\ persona_id \in DOMAIN activos[nivel_id]
    THEN activos[nivel_id][persona_id]
    ELSE "None"

\* the level loop without the comparison: every level is a change
PlanLevels_Always(activos, persona_id, desired_active, niveles, acc) ==
    [acc EXCEPT !.changes = @ \o
        [k \in 1..Len(niveles) |->
            [persona_id |-> persona_id, nivel_id |-> niveles[k],
             desired_active |-> desired_active,
             current_active |->
                 CurrentActive(activos, niveles[k], persona_id)]]]

\* lines 232-239 for one persona: acc is [changes, omitidas, warnings]
RECURSIVE PlanLevels(_, _, _, _, _)
PlanLevels(activos, persona_id, desired_active, niveles, acc) ==
    IF niveles = <<>> THEN acc
    ELSE LET nivel_id == Head(niveles)
             current_active == CurrentActive(activos, nivel_id, persona_id)
         IN  IF current_active # "None" /\ current_active = desired_active
             THEN PlanLevels(activos, persona_id, desired_active, Tail(niveles),
                      [acc EXCEPT !.omitidas = @ + 1])
             ELSE PlanLevels(activos, persona_id, desired_active, Tail(niveles),
                      [acc EXCEPT !.changes = Append(@,
                          [persona_id |-> persona_id, nivel_id |-> nivel_id,
                           desired_active |-> desired_active,
                           current_active |-> current_active])])

\* lines 224-239 over estado_by_persona, in insertion order
RECURSIVE PlanChanges(_, _, _, _, _)
PlanChanges(activos, estado, niveles_by, keys, acc) ==
    IF keys = <<>> THEN acc
    ELSE LET persona_id == Head(keys)
             level_ids == GetSet(niveles_by, persona_id)
         IN  IF level_ids = {}
             THEN PlanChanges(activos, estado, niveles_by, Tail(keys),
                      [acc EXCEPT
                         !.warnings = Append(@, Warn("estado_sin_niveles",
                                                     persona_id)),
                         !.omitidas = @ + 1])
             ELSE PlanChanges(activos, estado, niveles_by, Tail(keys),
                      PlanLevels(activos, persona_id, estado[persona_id],
                                 SortSet(level_ids), acc))

\* lines 221-245: the rosters are in; collect the errors and plan
PlanEstado ==
    /\ pc = "fetch_nivel" /\ queue = <<>>
    /\ LET plan == PlanChanges(st.activos_por_nivel,
                               st.estado_by_persona.val,
                               st.estado_niveles_by_persona.val,
                               st.estado_by_persona.keys,
                               [changes |-> <<>>, omitidas |-> 0,
                                warnings |-> <<>>])
       IN  /\ errors' = errors \o st.nivel_errors
           /\ summary' = [summary EXCEPT
                  !.errores_api = @ + Len(st.nivel_errors),
                  !.estado_omitidas = @ + plan.omitidas]
           /\ warnings' = warnings \o plan.warnings
           /\ st' = [st EXCEPT !.estado_changes = plan.changes,
                               !.total = Len(plan.changes)]
           /\ queue' = plan.changes
    /\ pc' = "estado"
    /\ UNCHANGED <<env, remote, i, calls, actions, progress, fails, run, prev>>

\* a PUT that first grants the level to a persona the roster did not list
EstadoCalls_GrantsLevel(ch, ok) ==
    IF ch.current_active = "None"
    THEN <<Call("asignar_nivel", ch.persona_id, 0, {ch.nivel_id}, TRUE),
           Call("activar_inactivar", ch.persona_id, ch.nivel_id,
                ActivoArg(ch.desired_active), ok)>>
    ELSE <<Call("activar_inactivar", ch.persona_id, ch.nivel_id,
                ActivoArg(ch.desired_active), ok)>>

\* lines 276-281: the one PUT _set_profesor_activo issues for a change
EstadoCalls(ch, ok) ==
    <<Call("activar_inactivar", ch.persona_id, ch.nivel_id,
           ActivoArg(ch.desired_active), ok)>>

\* lines 246-304: one iteration of the Estado loop
SetEstado ==
    /\ pc = "estado" /\ queue # <<>>
    /\ LET ch == Head(queue)
           n == st.progress_counts.estado + 1
           counter == IF ch.desired_active = "True" THEN "estado_activaciones"
                      ELSE "estado_inactivaciones"
       IN  /\ st' = [st EXCEPT !.progress_counts.estado = n]
           /\ progress' = IF env.opts.on_progress
                          THEN Append(progress, <<"estado", n, st.total>>)
                          ELSE progress
           /\ queue' = Tail(queue)
           /\ IF env.opts.dry_run
              THEN /\ summary' = Bump(summary, counter)
                   /\ actions' = Append(actions,
                          Act("activar_inactivar", ch.persona_id, ch.nivel_id,
                              "dry-run"))
                   /\ UNCHANGED <<remote, errors, calls, fails>>
              ELSE \E ok \in BOOLEAN :
                   /\ ok \/ fails < MaxFail
                   /\ fails' = IF ok THEN fails ELSE fails + 1
                   /\ calls' = calls \o EstadoCalls(ch, ok)
                   /\ actions' = Append(actions,
                          Act("activar_inactivar", ch.persona_id, ch.nivel_id,
                              IF ok THEN "ok" ELSE "error"))
                   /\ remote' = IF ok
                                THEN [remote EXCEPT !.nivel =
                                         RemoteSetActivo(@, ch.persona_id,
                                             ch.nivel_id, ch.desired_active)]
                                ELSE remote
                   /\ errors' = IF ok THEN errors
                                ELSE Append(errors,
                                         ErrorRec("activar_inactivar",
                                                  ch.persona_id, ch.nivel_id))
                   /\ summary' = IF ok THEN Bump(summary, counter)
                                 ELSE Bump(summary, "errores_api")
    /\ UNCHANGED <<env, pc, i, warnings, run, prev>>

\* lines 306-310: the two early returns
ReturnEarly ==
    /\ pc = "estado" /\ queue = <<>>
    /\ env.opts.list_estado_only \/ ~env.opts.do_clases
    /\ pc' = "done"
    /\ UNCHANGED <<env, remote, i, queue, st, summary, warnings, errors, calls,
                   actions, progress, fails, run, prev>>

\* the total counting the docentes instead of their matches
SumLen_Docentes(ss) == Len(ss)

\* line 375: total_asignaciones
RECURSIVE SumLen(_)
SumLen(ss) == IF ss = <<>> THEN 0 ELSE Len(Head(ss)) + SumLen(Tail(ss))

\* lines 312-375: the catalog, sorted, and the matches of every docente
FetchClases ==
    /\ pc = "estado" /\ queue = <<>>
    /\ ~(env.opts.list_estado_only \/ ~env.opts.do_clases)
    /\ \E ok \in BOOLEAN :
           /\ ok \/ fails < MaxFail
           /\ fails' = IF ok THEN fails ELSE fails + 1
           /\ calls' = Append(calls, Call("listar_clases", 0, 0, {}, ok))
           /\ IF ok
              THEN LET fetched == CatalogFetched
                       clases == CatalogSorted
                       matches == [k \in 1..Len(st.docentes) |->
                                      _match_clases(st.docentes[k], clases)]
                   IN  /\ st' = [st EXCEPT !.clases = clases,
                                           !.docente_matches = matches,
                                           !.total = SumLen(matches)]
                       /\ warnings' = IF fetched.ignored # 0
                                      THEN Append(warnings,
                                               Warn("clases_ignoradas",
                                                    fetched.ignored))
                                      ELSE warnings
                       /\ pc' = "docentes"
                       /\ i' = 1
              ELSE /\ pc' = "raised"
                   /\ UNCHANGED <<st, warnings, i>>
    /\ UNCHANGED <<env, remote, queue, summary, errors, actions, progress,
                   run, prev>>

\* lines 403-404: desired_by_class.setdefault(clase["id"], set()).add(persona)
RECURSIVE AddDesired(_, _, _)
AddDesired(dbc, matches, persona_id) ==
    IF matches = <<>> THEN dbc
    ELSE LET c == Head(matches).id IN
         AddDesired([keys |-> IF c \in DOMAIN dbc.val THEN dbc.keys
                              ELSE Append(dbc.keys, c),
                     val |-> Put(dbc.val, c, GetSet(dbc.val, c) \cup {persona_id})],
                    Tail(matches), persona_id)

\* lines 376-404: the head of one iteration of the docente loop
NextDocente ==
    /\ pc = "docentes" /\ i <= Len(st.docentes)
    /\ LET docente == st.docentes[i]
           matches == st.docente_matches[i]
           counted == Bump(summary, "docentes_procesados")
       IN  IF DOMAIN docente.desired_by_level = {}
           THEN /\ summary' = Bump(counted, "docentes_sin_match")
                /\ i' = i + 1
                /\ UNCHANGED <<pc, queue, st>>
           ELSE IF matches = <<>>
           THEN /\ summary' = Bump(counted, "docentes_sin_match")
                /\ i' = i + 1
                /\ UNCHANGED <<pc, queue, st>>
           ELSE /\ summary' = [counted EXCEPT
                       !.clases_encontradas = @ + Len(matches)]
                /\ st' = [st EXCEPT !.desired_by_class =
                             AddDesired(@, matches, docente.persona_id)]
                /\ queue' = matches
                /\ pc' = "clases"
                /\ i' = i
    /\ UNCHANGED <<env, remote, warnings, errors, calls, actions, progress,
                   fails, run, prev>>

\* a failed roster listing that aborts the run
StaffErrorNext_Raises(next_pc) == "raised"

\* line 442: a failed roster listing skips to the next matched class
StaffErrorNext(next_pc) == next_pc

\* the test without the observed roster
AlreadyAssigned_IgnoresRoster(persona_id, staff, planned) ==
    persona_id \in planned

\* the test without the adds queued earlier in the run
AlreadyAssigned_IgnoresPlanned(persona_id, staff, planned) ==
    persona_id \in staff

\* line 446: persona_id in staff or persona_id in planned
AlreadyAssigned(persona_id, staff, planned) ==
    persona_id \in staff \/ persona_id \in planned

\* a successful add that leaves the cached roster as it was
StaffAfterAdd_Forgets(staff, persona_id) == staff

\* line 499: staff.add(persona_id) on the cached roster
\* the cached roster replaced by the added persona alone
StaffAfterAdd_Replaces(staff, persona_id) == {persona_id}

StaffAfterAdd(staff, persona_id) == staff \cup {persona_id}

\* lines 406-505: one matched class of the current docente
AsignarClase ==
    /\ pc = "clases" /\ queue # <<>>
    /\ LET persona_id == st.docentes[i].persona_id
           clase_id == Head(queue).id
           rest == Tail(queue)
           n == st.progress_counts.asignar + 1
           cached == clase_id \in DOMAIN st.staff_cache
           staff == IF cached THEN st.staff_cache[clase_id]
                    ELSE remote.staff[clase_id]
           fetched == IF cached THEN calls
                      ELSE Append(calls,
                               Call("listar_staff", persona_id, clase_id,
                                    staff, TRUE))
           planned == GetSet(st.planned_by_class, clase_id)
           st1 == [st EXCEPT !.progress_counts.asignar = n]
           st2 == [st1 EXCEPT
                      !.staff_cache = Put(@, clase_id, staff),
                      !.planned_by_class = Put(@, clase_id, planned)]
           next_pc == IF rest = <<>> THEN "docentes" ELSE "clases"
       IN  /\ progress' = IF env.opts.on_progress
                          THEN Append(progress,
                                   <<"asignar", n, Max(st.total, 1)>>)
                          ELSE progress
           /\ queue' = rest
           /\ i' = IF rest = <<>> THEN i + 1 ELSE i
           /\ \/ \* the roster is not cached and its listing fails
                 /\ ~cached /\ fails < MaxFail
                 /\ pc' = StaffErrorNext(next_pc)
                 /\ fails' = fails + 1
                 /\ calls' = Append(calls,
                        Call("listar_staff", persona_id, clase_id, {}, FALSE))
                 /\ errors' = Append(errors,
                        ErrorRec("listar_staff", persona_id, clase_id))
                 /\ summary' = Bump(summary, "errores_api")
                 /\ st' = st1
                 /\ UNCHANGED <<remote, actions>>
              \/ \* the roster is known
                 /\ pc' = next_pc
                 /\ IF AlreadyAssigned(persona_id, staff, planned)
                    THEN /\ summary' = Bump(summary, "asignaciones_omitidas")
                         /\ st' = st2
                         /\ calls' = fetched
                         /\ UNCHANGED <<remote, errors, actions, fails>>
                    ELSE IF env.opts.dry_run
                    THEN /\ summary' = Bump(summary, "asignaciones_nuevas")
                         /\ st' = [st2 EXCEPT !.planned_by_class[clase_id] =
                                      @ \cup {persona_id}]
                         /\ calls' = fetched
                         /\ actions' = Append(actions,
                                Act("asignar_profesor", persona_id, clase_id,
                                    "dry-run"))
                         /\ UNCHANGED <<remote, errors, fails>>
                    ELSE \E ok \in BOOLEAN :
                         /\ ok \/ fails < MaxFail
                         /\ fails' = IF ok THEN fails ELSE fails + 1
                         /\ calls' = Append(fetched,
                                Call("asignar_profesor", persona_id, clase_id,
                                     {}, ok))
                         /\ actions' = Append(actions,
                                Act("asignar_profesor", persona_id, clase_id,
                                    IF ok THEN "ok" ELSE "error"))
                         /\ remote' = IF ok
                                      THEN [remote EXCEPT !.staff =
                                               RemoteAddStaff(@, clase_id,
                                                              persona_id)]
                                      ELSE remote
                         /\ errors' = IF ok THEN errors
                                      ELSE Append(errors,
                                               ErrorRec("asignar_profesor",
                                                        persona_id, clase_id))
                         /\ summary' = IF ok
                                       THEN Bump(summary, "asignaciones_nuevas")
                                       ELSE Bump(summary, "errores_api")
                         /\ st' = IF ok
                                  THEN [st2 EXCEPT !.staff_cache[clase_id] =
                                           StaffAfterAdd(@, persona_id)]
                                  ELSE st2
    /\ UNCHANGED <<env, warnings, run, prev>>

\* the test without the remove_missing flag
RemovalEnabled_Always(remove_missing, dbc) == dbc.keys # <<>>

\* line 507: if remove_missing and desired_by_class
RemovalEnabled(remove_missing, dbc) == remove_missing /\ dbc.keys # <<>>

\* line 507: the docente loop is over; decide whether removals are planned
EnterRemoval ==
    /\ pc = "docentes" /\ i > Len(st.docentes)
    /\ IF RemovalEnabled(env.opts.remove_missing, st.desired_by_class)
       THEN /\ pc' = "plan_removal"
            /\ queue' = st.desired_by_class.keys
       ELSE /\ pc' = "finish"
            /\ queue' = <<>>
    /\ UNCHANGED <<env, remote, i, st, summary, warnings, errors, calls,
                   actions, progress, fails, run, prev>>

\* the roster taken whole, desired personas included
Surplus_WholeRoster(staff, desired_ids) == staff

\* line 537: the personas on the roster that are not desired for the class
Surplus(staff, desired_ids) == {p \in staff : p \notin desired_ids}

\* lines 537-544: one pending removal per surplus persona, in sorted order
Removals(clase_id, personas) ==
    [k \in 1..Len(personas) |->
        [clase_id |-> clase_id, persona_id |-> personas[k]]]

\* lines 511-544: the surplus of one class that was matched
PlanRemoval ==
    /\ pc = "plan_removal" /\ queue # <<>>
    /\ LET clase_id == Head(queue)
           desired_ids == st.desired_by_class.val[clase_id]
           rest == Tail(queue)
           cached == clase_id \in DOMAIN st.staff_cache
           staff == IF cached THEN st.staff_cache[clase_id]
                    ELSE remote.staff[clase_id]
           to_remove == SortSet(Surplus(staff, desired_ids))
           pending == st.pending_removals \o Removals(clase_id, to_remove)
       IN  \/ \* the roster is not cached and its listing fails
              /\ ~cached /\ fails < MaxFail
              /\ fails' = fails + 1
              /\ calls' = Append(calls,
                     Call("listar_staff", 0, clase_id, {}, FALSE))
              /\ errors' = Append(errors, ErrorRec("listar_staff", 0, clase_id))
              /\ summary' = Bump(summary, "errores_api")
              /\ st' = [st EXCEPT !.total = Len(st.pending_removals)]
              /\ queue' = IF rest = <<>> THEN st.pending_removals ELSE rest
           \/ \* the roster is known
              /\ calls' = IF cached THEN calls
                          ELSE Append(calls,
                                   Call("listar_staff", 0, clase_id, staff,
                                        TRUE))
              /\ st' = [st EXCEPT !.staff_cache = Put(@, clase_id, staff),
                                  !.pending_removals = pending,
                                  !.total = Len(pending)]
              /\ queue' = IF rest = <<>> THEN pending ELSE rest
              /\ UNCHANGED <<errors, summary, fails>>
    /\ pc' = IF Tail(queue) = <<>> THEN "eliminar" ELSE "plan_removal"
    /\ UNCHANGED <<env, remote, i, warnings, actions, progress, run, prev>>

\* lines 545-590: one pending removal; everything after the progress
\* counter sits inside `if on_progress:`
Eliminar ==
    /\ pc = "eliminar" /\ queue # <<>>
    /\ LET r == Head(queue)
           n == st.progress_counts.eliminar + 1
       IN  /\ st' = [st EXCEPT !.progress_counts.eliminar = n]
           /\ queue' = Tail(queue)
           /\ IF ~env.opts.on_progress
              THEN UNCHANGED <<remote, summary, errors, calls, actions,
                               progress, fails>>
              ELSE /\ progress' = Append(progress,
                          <<"eliminar", n, Max(st.total, 1)>>)
                   /\ IF env.opts.dry_run
                      THEN /\ summary' = Bump(summary, "eliminaciones")
                           /\ actions' = Append(actions,
                                  Act("eliminar_profesor", r.persona_id,
                                      r.clase_id, "dry-run"))
                           /\ UNCHANGED <<remote, errors, calls, fails>>
                      ELSE \E ok \in BOOLEAN :
                           /\ ok \/ fails < MaxFail
                           /\ fails' = IF ok THEN fails ELSE fails + 1
                           /\ calls' = Append(calls,
                                  Call("eliminar_profesor", r.persona_id,
                                       r.clase_id, {}, ok))
                           /\ actions' = Append(actions,
                                  Act("eliminar_profesor", r.persona_id,
                                      r.clase_id,
                                      IF ok THEN "ok" ELSE "error"))
                           /\ remote' = IF ok
                                        THEN [remote EXCEPT !.staff =
                                                 RemoteDeleteStaff(@,
                                                     r.clase_id, r.persona_id)]
                                        ELSE remote
                           /\ errors' = IF ok THEN errors
                                        ELSE Append(errors,
                                                 ErrorRec("eliminar_profesor",
                                                     r.persona_id, r.clase_id))
                           /\ summary' = IF ok
                                         THEN Bump(summary, "eliminaciones")
                                         ELSE Bump(summary, "errores_api")
    /\ UNCHANGED <<env, pc, i, warnings, run, prev>>

\* lines 592-595
Return ==
    /\ \/ pc = "eliminar" /\ queue = <<>>
       \/ pc = "finish"
    /\ warnings' = IF summary.docentes_procesados = 0
                   THEN Append(warnings, Warn("sin_docentes", 0))
                   ELSE warnings
    /\ pc' = "done"
    /\ UNCHANGED <<env, remote, i, queue, st, summary, errors, calls, actions,
                   progress, fails, run, prev>>

Next ==
    \/ Load
    \/ AssignNiveles
    \/ EnterEstado
    \/ FetchNivel
    \/ PlanEstado
    \/ SetEstado
    \/ ReturnEarly
    \/ FetchClases
    \/ NextDocente
    \/ AsignarClase
    \/ EnterRemoval
    \/ PlanRemoval
    \/ Eliminar
    \/ Return

Spec == Init /\ [][Next]_vars

(* ------------------------------------------------------------------ *)
(* A second call on the same spreadsheet, against what the first left  *)
(* ------------------------------------------------------------------ *)
StartSecondRun ==
    /\ pc = "done" /\ run = 1
    /\ prev' = [summary |-> summary, errors |-> errors, calls |-> calls,
                actions |-> actions, opts |-> env.opts,
                activos_por_nivel |-> st.activos_por_nivel]
    /\ run' = 2
    /\ env' = [env EXCEPT !.opts.dry_run = FALSE]
    /\ pc' = "start"
    /\ i' = 0
    /\ queue' = <<>>
    /\ st' = st0
    /\ summary' = summary0
    /\ warnings' = <<>>
    /\ errors' = <<>>
    /\ calls' = <<>>
    /\ actions' = <<>>
    /\ progress' = <<>>
    /\ UNCHANGED <<remote, fails>>

NextTwice == Next \/ StartSecondRun

\* the calls that are run twice: every phase on, removals on
TwiceOpts ==
    {OptOf(d, TRUE, g, TRUE, TRUE, TRUE, FALSE) : d \in BOOLEAN, g \in BOOLEAN}
    \cup {OptOf(FALSE, FALSE, TRUE, TRUE, TRUE, FALSE, FALSE)}

InitTwice ==
    /\ env \in [rows : Tables, opts : TwiceOpts]
    /\ remote \in RemotePool
    /\ RunInit
    /\ fails = 0
    /\ run = 1
    /\ prev = NoPrev

SpecTwice == InitTwice /\ [][NextTwice]_vars

(* ------------------------------------------------------------------ *)
(* The parser, the level extraction and the matcher on their own       *)
(* ------------------------------------------------------------------ *)
\* length of a class name
MaxName == 5

\* items of a class-list payload
MaxItems == 2

\* characters of a class name: a separator, digits, a level letter, a
\* section letter in lower case, punctuation
NameChars == {" ", "0", "3", "P", "a", "-"}

Names == SeqsUpTo(NameChars, MaxName)

\* cells of a grade or level column: blank, truthy, not truthy
CellPool == {Blank, <<"x">>, <<"n","o">>}

\* rows with two grade columns (P3, S1) and two level columns
FnRows ==
    {[persona_id |-> <<"1">>, curso |-> <<"M","a","t">>, Estado |-> Blank,
      Secciones |-> Blank, grades |-> g, levels |-> l] :
        g \in [{<<"P", 3>>, <<"S", 1>>} -> CellPool],
        l \in [{"P", "S"} -> CellPool]}

\* payload items: in-range and out-of-range grades, an accented and a
\* level-first name, another course, a name without suffix
ItemPool ==
    {[geClaseId |-> 21, geClase |-> <<"M","a","t"," ","3","P","A">>],
     [geClaseId |-> 22, geClase |-> <<"M","a","t"," ","3","P","B">>],
     [geClaseId |-> 23, geClase |-> <<"M","a","t"," ","9","P","A">>],
     [geClaseId |-> 24, geClase |-> <<"M","á","t"," ","S","1","a">>],
     [geClaseId |-> 25, geClase |-> <<"C","o","m"," ","3","P","A">>],
     [geClaseId |-> 26, geClase |-> <<"M","a","t"," ","0","P","A">>],
     [geClaseId |-> 27, geClase |-> <<"T","a","l","l","e","r">>]}

Payloads == SeqsUpTo(ItemPool, MaxItems)

\* the docentes _load_docentes makes of each row of the pool
FnDocentes ==
    UNION {{_load_docentes(<<r>>, TRUE).docentes[k] :
               k \in 1..Len(_load_docentes(<<r>>, TRUE).docentes)} :
           r \in RowPool}

\* rows of a table given to _load_docentes
MaxTable == 3

\* the rows of the pool plus: an entirely blank row, a row without
\* persona_id, a row with persona_id 0, a level-general row with a section
\* of another level and an invalid section token, a row whose Estado does
\* not parse, a row holding nothing but a "no" mark, persona 1 to be
\* inactive
FnTableRows ==
    RowPool \cup
    { RowOf(Blank, Blank, Blank, Blank, Blank, Blank, Blank),
      RowOf(<<"x">>, <<"M","a","t">>, Blank, Blank, <<"x">>, Blank, Blank),
      RowOf(<<"0">>, <<"M","a","t">>, <<"A">>, Blank, Blank, Blank, <<"S","I">>),
      RowOf(<<"3">>, <<"M","a","t">>, Blank,
            <<"S","1","B",","," ","z","z">>, Blank, Blank, <<"S","I">>),
      RowOf(<<"2">>, <<"M","a","t">>, <<"z">>, Blank, <<"x">>, Blank, Blank),
      RowOf(Blank, Blank, Blank, Blank, <<"n","o">>, Blank, Blank),
      RowOf(<<"1">>, <<"M","a","t">>, <<"I">>, Blank, <<"x">>, Blank, Blank) }

FnTables == SeqsUpTo(FnTableRows, MaxTable) \ {<<>>}

FnInputs ==
    {[kind |-> "name", name |-> n] : n \in Names}
    \cup {[kind |-> "row", row |-> r] : r \in FnRows}
    \cup {[kind |-> "catalog", data |-> d, docente |-> x] :
             d \in Payloads, x \in FnDocentes}
    \cup {[kind |-> "table", rows |-> t, require_curso |-> b] :
             t \in FnTables, b \in BOOLEAN}

InitFn ==
    /\ env \in FnInputs
    /\ remote = [staff |-> EmptyStaff, nivel |-> EmptyNivel]
    /\ RunInit
    /\ fails = 0
    /\ run = 1
    /\ prev = NoPrev

\* _parse_class_suffix(name)
ParseSuffix ==
    /\ pc = "start" /\ env.kind = "name"
    /\ st' = [parsed |-> _parse_class_suffix(env.name)]
    /\ pc' = "parsed"
    /\ UNCHANGED <<env, remote, i, queue, summary, warnings, errors, calls,
                   actions, progress, fails, run, prev>>

\* _extract_desired_levels(row, grade_cols, level_cols)
ExtractLevels ==
    /\ pc = "start" /\ env.kind = "row"
    /\ st' = [extracted |-> _extract_desired_levels(env.row)]
    /\ pc' = "extracted"
    /\ UNCHANGED <<env, remote, i, queue, summary, warnings, errors, calls,
                   actions, progress, fails, run, prev>>

\* _fetch_clases on a payload, the sort of line 319, _match_clases
FetchAndMatch ==
    /\ pc = "start" /\ env.kind = "catalog"
    /\ LET fetched == _fetch_clases(env.data)
           clases == SortClases(fetched.clases)
       IN  st' = [clases |-> clases, ignored |-> fetched.ignored,
                  matches |-> _match_clases(env.docente, clases)]
    /\ pc' = "matched"
    /\ UNCHANGED <<env, remote, i, queue, summary, warnings, errors, calls,
                   actions, progress, fails, run, prev>>

\* _load_docentes on a table, then _collect_estado on its docentes
LoadTable ==
    /\ pc = "start" /\ env.kind = "table"
    /\ LET loaded == _load_docentes(env.rows, env.require_curso)
       IN  st' = [docentes |-> loaded.docentes, warnings |-> loaded.warnings,
                  invalidos |-> loaded.invalidos,
                  estado |-> _collect_estado(loaded.docentes)]
    /\ pc' = "loaded"
    /\ UNCHANGED <<env, remote, i, queue, summary, warnings, errors, calls,
                   actions, progress, fails, run, prev>>

NextFn == ParseSuffix \/ ExtractLevels \/ FetchAndMatch \/ LoadTable

SpecFn == InitFn /\ [][NextFn]_vars

(* ------------------------------------------------------------------ *)
(* sync_profesores (profesores_sync.py): the teachers the service      *)
(* lists against the levels the spreadsheet groups ask for             *)
(* ------------------------------------------------------------------ *)
\* teachers the service lists in one run
MaxEntries == 2

\* what listar_profesores_data returns of a teacher: the levels whose
\* listing holds the teacher (never empty), the activo flag of those levels
\* and of the levels of the detail record, the levels of the detail record
\* (empty when the detail could not be fetched) and the active ones of them
EntryOf(presentes, activos, detalle, detalle_activos) ==
    [niveles_activos |-> activos, niveles_detalle |-> detalle,
     niveles_detalle_activos |-> detalle_activos,
     niveles_presentes |-> presentes]

EntryPool ==
    { \* active on Primaria, listed but inactive on Secundaria
      EntryOf({39, 40}, [n \in {39, 40} |-> n = 39], {39, 40}, {39}),
      \* active on both
      EntryOf({39, 40}, [n \in {39, 40} |-> TRUE], {39, 40}, {39, 40}),
      \* inactive on Primaria
      EntryOf({39}, [n \in {39} |-> FALSE], {39}, {}),
      \* active on Primaria, no detail record
      EntryOf({39}, [n \in {39} |-> TRUE], {}, {}),
      \* listed on Primaria, the detail knows Secundaria too
      EntryOf({39}, [n \in {39, 40} |-> TRUE], {39, 40}, {39, 40}),
      \* active on Inicial, inactive on Primaria
      EntryOf({38, 39}, [n \in {38, 39} |-> n = 38], {38, 39}, {38}) }

\* profesores_api: the teacher at position k has persona_id k
EntryLists ==
    {[k \in 1..Len(es) |->
         [persona_id |-> k, niveles_activos |-> es[k].niveles_activos,
          niveles_detalle |-> es[k].niveles_detalle,
          niveles_detalle_activos |-> es[k].niveles_detalle_activos,
          niveles_presentes |-> es[k].niveles_presentes]] :
       es \in SeqsUpTo(EntryPool, MaxEntries) \ {<<>>}}

\* the level sets a matched group asks for (_desired_levels), the empty
\* set for a group that marks no level
DesiredPool == {{}, {39}, {40}, {39, 40}}

\* desired_by_persona as _match_excel_to_api returns it: an entry for every
\* listed teacher that a spreadsheet group matched
DesiredMaps(n) ==
    UNION {[S -> DesiredPool] : S \in SUBSET (1..n)}

\* nivel_ids given by the caller, or every level of NIVEL_MAP
LevelIdLists == {<<38, 39, 40>>, <<39>>}

SyncInputs ==
    {[kind |-> "sync", profesores_api |-> es, desired_by_persona |-> d,
      all_level_ids |-> ids, dry_run |-> b, missing_excel |-> me] :
        es \in EntryLists,
        d \in DesiredMaps(MaxEntries), ids \in LevelIdLists, b \in BOOLEAN,
        \* spreadsheet groups that match no listed teacher
        me \in 0..1}

SyncSummary0 ==
    [activar |-> 0, inactivar |-> 0, asignar_nivel |-> 0, errores_api |-> 0]

InitSync ==
    /\ env \in {x \in SyncInputs :
                   /\ DOMAIN x.desired_by_persona
                          \subseteq 1..Len(x.profesores_api)
                   \* only the levels of the run are listed
                   /\ \A k \in 1..Len(x.profesores_api) :
                          x.profesores_api[k].niveles_presentes \subseteq
                              {x.all_level_ids[j] :
                                   j \in 1..Len(x.all_level_ids)}}
    /\ remote = [staff |-> EmptyStaff, nivel |-> EmptyNivel]
    /\ RunInit
    /\ fails = 0
    /\ run = 1
    /\ prev = NoPrev

\* activos.get(nivel_id) is True
IsActivo(entry, nivel_id) ==
    nivel_id \in DOMAIN entry.niveles_activos /\ entry.niveles_activos[nivel_id]

_resolve_niveles_actuales(entry) ==
    IF entry.niveles_detalle # {} THEN entry.niveles_detalle
    ELSE IF entry.niveles_detalle_activos # {} THEN entry.niveles_detalle_activos
    ELSE IF entry.niveles_presentes # {} THEN entry.niveles_presentes
    ELSE {}

\* what the calls of one teacher add: acc is [calls, actions, errors, count]
SyncAcc0 == [calls |-> <<>>, actions |-> <<>>, errors |-> <<>>, count |-> 0]

PutKind(activo) == IF activo THEN "activar" ELSE "inactivar"

\* one PUT activarInactivar; failing is the set of levels whose PUT fails
_put_activar(acc, nivel_id, persona_id, activo, dry_run, failing) ==
    IF dry_run
    THEN [acc EXCEPT
            !.actions = Append(@, Act(PutKind(activo), persona_id, nivel_id,
                                      "dry-run")),
            !.count = @ + 1]
    ELSE IF nivel_id \in failing
    THEN [acc EXCEPT
            !.calls = Append(@, Call("activarInactivar", persona_id, nivel_id,
                                     IF activo THEN {1} ELSE {0}, FALSE)),
            !.actions = Append(@, Act(PutKind(activo), persona_id, nivel_id,
                                      "error")),
            !.errors = Append(@, ErrorRec("activarInactivar", persona_id,
                                          nivel_id))]
    ELSE [acc EXCEPT
            !.calls = Append(@, Call("activarInactivar", persona_id, nivel_id,
                                     IF activo THEN {1} ELSE {0}, TRUE)),
            !.actions = Append(@, Act(PutKind(activo), persona_id, nivel_id,
                                      "ok")),
            !.count = @ + 1]

RECURSIVE PutEach(_, _, _, _, _, _)
PutEach(acc, niveles, persona_id, activo, dry_run, failing) ==
    IF niveles = <<>> THEN acc
    ELSE PutEach(_put_activar(acc, Head(niveles), persona_id, activo, dry_run,
                              failing),
                 Tail(niveles), persona_id, activo, dry_run, failing)

\* the desired levels of all_level_ids that are not active, in order
_activar_deseados(acc, entry, desired_levels, all_level_ids, dry_run, failing) ==
    PutEach(acc,
            SelectSeq(all_level_ids,
                      LAMBDA n : n \in desired_levels /\ ~IsActivo(entry, n)),
            entry.persona_id, TRUE, dry_run, failing)

\* the deactivation that spares no level: desired ones are switched off too
_inactivar_no_deseados_All(acc, entry, desired_levels, all_level_ids, dry_run, failing) ==
    PutEach(acc, SelectSeq(all_level_ids, LAMBDA n : IsActivo(entry, n)),
            entry.persona_id, FALSE, dry_run, failing)

\* the active levels of all_level_ids that are not desired, in order
_inactivar_no_deseados(acc, entry, desired_levels, all_level_ids, dry_run, failing) ==
    PutEach(acc,
            SelectSeq(all_level_ids,
                      LAMBDA n : n \notin desired_levels /\ IsActivo(entry, n)),
            entry.persona_id, FALSE, dry_run, failing)

\* every level the teacher is active on
_inactivar_todos(acc, entry, dry_run, failing) ==
    PutEach(acc,
            SortSet({n \in DOMAIN entry.niveles_activos : IsActivo(entry, n)}),
            entry.persona_id, FALSE, dry_run, failing)

\* PUT asignarNivel with the desired levels, unless they are the current ones
_assign_levels(acc, persona_id, desired_levels, current_levels, dry_run, ok) ==
    IF desired_levels = current_levels THEN acc
    ELSE IF dry_run
    THEN [acc EXCEPT
            !.actions = Append(@, Act("asignar_nivel", persona_id, 0, "dry-run")),
            !.count = @ + 1]
    ELSE IF ok
    THEN [acc EXCEPT
            !.calls = Append(@, Call("asignarNivel", persona_id, 0,
                                     desired_levels, TRUE)),
            !.actions = Append(@, Act("asignar_nivel", persona_id, 0, "ok")),
            !.count = @ + 1]
    ELSE [acc EXCEPT
            !.calls = Append(@, Call("asignarNivel", persona_id, 0,
                                     desired_levels, FALSE)),
            !.actions = Append(@, Act("asignar_nivel", persona_id, 0, "error")),
            !.errors = Append(@, ErrorRec("asignarNivel", persona_id, 0))]

\* lines 87-120: the listing and the matching are done, the summary is set up
SyncStart ==
    /\ pc = "start" /\ env.kind = "sync"
    /\ summary' = SyncSummary0
    /\ st' = [desired_by_persona |-> env.desired_by_persona]
    /\ i' = 1
    /\ pc' = "sync"
    /\ UNCHANGED <<env, remote, queue, warnings, errors, calls, actions,
                   progress, fails, run, prev>>

\* lines 122-137: a listed teacher that no group matched
SyncUnmatched ==
    /\ pc = "sync" /\ i <= Len(env.profesores_api)
    /\ env.profesores_api[i].persona_id \notin DOMAIN st.desired_by_persona
    /\ \E failing \in SUBSET NivelIds :
           LET entry == env.profesores_api[i]
               res == _inactivar_todos(SyncAcc0, entry, env.dry_run, failing)
           IN  /\ summary' = [summary EXCEPT
                                 !.inactivar = @ + res.count]
               /\ calls' = calls \o res.calls
               /\ actions' = actions \o res.actions
               /\ errors' = errors \o res.errors
    /\ i' = i + 1
    /\ UNCHANGED <<env, remote, pc, queue, st, warnings, progress, fails, run,
                   prev>>

\* lines 139-189: a listed teacher that a group matched
SyncMatched ==
    /\ pc = "sync" /\ i <= Len(env.profesores_api)
    /\ env.profesores_api[i].persona_id \in DOMAIN st.desired_by_persona
    /\ LET entry == env.profesores_api[i]
           asked == st.desired_by_persona[entry.persona_id]
           niveles_actuales == _resolve_niveles_actuales(entry)
           desired_levels == IF asked = {} THEN niveles_actuales ELSE asked
       IN  IF desired_levels = {}
           THEN /\ warnings' = Append(warnings,
                                   Warn("sin_niveles", entry.persona_id))
                /\ UNCHANGED <<summary, calls, actions, errors>>
           ELSE \E failing \in SUBSET NivelIds, ok \in BOOLEAN :
                LET asg == _assign_levels(SyncAcc0, entry.persona_id,
                               desired_levels, niveles_actuales, env.dry_run, ok)
                    act == _activar_deseados([asg EXCEPT !.count = 0], entry,
                               desired_levels, env.all_level_ids, env.dry_run,
                               failing)
                    ina == _inactivar_no_deseados([act EXCEPT !.count = 0],
                               entry, desired_levels, env.all_level_ids,
                               env.dry_run, failing)
                IN  /\ summary' = [summary EXCEPT
                                      !.asignar_nivel = @ + asg.count,
                                      !.activar = @ + act.count,
                                      !.inactivar = @ + ina.count]
                    /\ calls' = calls \o ina.calls
                    /\ actions' = actions \o ina.actions
                    /\ errors' = errors \o ina.errors
                    /\ UNCHANGED warnings
    /\ i' = i + 1
    /\ UNCHANGED <<env, remote, pc, queue, st, progress, fails, run, prev>>

\* lines 191-201
SyncReturn ==
    /\ pc = "sync" /\ i > Len(env.profesores_api)
    /\ warnings' = IF env.missing_excel > 0
                   THEN Append(warnings, Warn("excel_sin_match",
                                              env.missing_excel))
                   ELSE warnings
    /\ pc' = "done"
    /\ UNCHANGED <<env, remote, i, queue, st, summary, errors, calls,
                   actions, progress, fails, run, prev>>

NextSync == SyncStart \/ SyncUnmatched \/ SyncMatched \/ SyncReturn

SpecSync == InitSync /\ [][NextSync]_vars

(* ------------------------------------------------------------------ *)
(* Vocabulary of the properties                                        *)
(* ------------------------------------------------------------------ *)
MutatingOps ==
    {"asignar_nivel", "activar_inactivar", "asignar_profesor",
     "eliminar_profesor"}

\* the classes _match_clases returned for some docente of this run
MatchedIds ==
    UNION {{st.docente_matches[k][m].id : m \in 1..Len(st.docente_matches[k])} :
           k \in 1..Len(st.docente_matches)}

\* the personas whose docentes matched the class
DesiredFor(clase_id) ==
    {st.docentes[k].persona_id :
        k \in {d \in 1..Len(st.docente_matches) :
                  \E m \in 1..Len(st.docente_matches[d]) :
                      st.docente_matches[d][m].id = clase_id}}

Range(s) == {s[k] : k \in 1..Len(s)}

HasCall(op, ok) == \E k \in 1..Len(calls) : calls[k].op = op /\ calls[k].ok = ok

FailedCalls == SelectSeq(calls, LAMBDA c : ~c.ok)

PhaseRank(op) ==
    CASE op = "asignar_nivel" -> 1
      [] op = "activar_inactivar" -> 2
      [] op = "asignar_profesor" -> 3
      [] op = "eliminar_profesor" -> 4
      [] OTHER -> 0

\* the first run applied, the second has returned, no call failed
BothApplied ==
    run = 2 /\ pc = "done" /\ ~prev.opts.dry_run /\ ~env.opts.dry_run
    /\ fails = 0

\* the first run was a dry run, the second applied and has returned
DryThenApplied ==
    run = 2 /\ pc = "done" /\ prev.opts.dry_run /\ ~env.opts.dry_run

C2_RemovalContainment ==
    /\ \A k \in 1..Len(calls) :
           calls[k].op = "eliminar_profesor" =>
               env.opts.remove_missing /\ calls[k].target \in MatchedIds
    /\ \A k \in 1..Len(actions) :
           actions[k].kind = "eliminar_profesor" =>
               env.opts.remove_missing /\ actions[k].target \in MatchedIds
    /\ \A k \in 1..Len(st.pending_removals) :
           env.opts.remove_missing
           /\ st.pending_removals[k].clase_id \in MatchedIds
    /\ \A k \in 1..Len(calls) :
           calls[k].op \in {"asignar_profesor", "eliminar_profesor",
                            "listar_staff"}
               => calls[k].target \in MatchedIds

C2_Witness ==
    /\ pc = "done"
    /\ HasCall("eliminar_profesor", TRUE)
    /\ \E c \in ClaseIds \ MatchedIds : remote.staff[c] # {}

(* ------------------------------------------------------------------ *)
(* C3  Dry-run purity                                                  *)
(* ------------------------------------------------------------------ *)
\* C3: with dry_run no mutating call is issued, and every planned
\* action is counted in the summary: each level assignment, each Estado
\* change, each queued add and each pending removal.
C3_DryRunCountsPlan ==
    env.opts.dry_run =>
        /\ \A k \in 1..Len(calls) : calls[k].op \notin MutatingOps
        /\ pc = "done" =>
              /\ summary.niveles_asignados = st.progress_counts.niveles
              /\ summary.estado_activaciones + summary.estado_inactivaciones
                     = Len(st.estado_changes)
              /\ summary.asignaciones_nuevas =
                     Cardinality(UNION {{<<c, p>> : p \in st.planned_by_class[c]} :
                                        c \in DOMAIN st.planned_by_class})
              /\ summary.eliminaciones = Len(st.pending_removals)

(* ------------------------------------------------------------------ *)
(* C4  Partial-failure tolerance                                       *)
(* ------------------------------------------------------------------ *)
SuccessCounters ==
    {"niveles_asignados", "estado_activaciones", "estado_inactivaciones",
     "asignaciones_nuevas", "eliminaciones"}

\* a step in which a call other than the catalog fetch fails
C4_FailedStep ==
    LET new == {k \in (Len(calls) + 1)..Len(calls') :
                   ~calls'[k].ok /\ calls'[k].op # "listar_clases"}
    IN  new # {} =>
            /\ Cardinality(new) = 1
            /\ LET c == calls'[CHOOSE k \in new : TRUE]
                   rec == [tipo |-> c.op, persona_id |-> c.persona_id,
                           target |-> c.target]
               IN  IF c.op = "listar_profesores_nivel"
                   THEN /\ st'.nivel_errors = Append(st.nivel_errors, rec)
                        /\ errors' = errors
                   ELSE /\ errors' = Append(errors, rec)
                        /\ st'.nivel_errors = st.nivel_errors
            /\ \A f \in SuccessCounters : summary'[f] = summary[f]
            /\ pc' \notin {"raised", "done"}
            /\ pc # "plan_removal" => queue' = Tail(queue)

\* C4: a failed call other than the catalog fetch appends exactly one
\* error record typed with the kind of the call, leaves every success
\* counter as it was and leaves the rest of the work in place; the
\* errors returned are the failed calls, one for one and in order.
C4_PartialFailure ==
    /\ [][C4_FailedStep]_vars
    /\ [](pc = "done" =>
            errors = [k \in 1..Len(FailedCalls) |->
                         [tipo |-> FailedCalls[k].op,
                          persona_id |-> FailedCalls[k].persona_id,
                          target |-> FailedCalls[k].target]])

C4_Witness ==
    /\ pc = "done"
    /\ Len(errors) = 1
    /\ errors[1].tipo = "asignar_profesor"
    /\ summary.asignaciones_nuevas > 0
    /\ HasCall("eliminar_profesor", TRUE)

(* ------------------------------------------------------------------ *)
(* C5  Termination                                                     *)
(* ------------------------------------------------------------------ *)
CatalogFailed ==
    /\ calls # <<>>
    /\ calls[Len(calls)].op = "listar_clases"
    /\ ~calls[Len(calls)].ok

\* the phases in the order the run goes through them
PhaseIndex(p) ==
    CASE p = "start" -> 0
      [] p = "niveles" -> 1
      [] p = "fetch_nivel" -> 2
      [] p = "estado" -> 3
      [] p \in {"docentes", "clases"} -> 4
      [] p = "plan_removal" -> 5
      [] p = "eliminar" -> 6
      [] p = "finish" -> 7
      [] OTHER -> 8

\* the work left in the current phase
Remaining ==
    IF pc \in {"docentes", "clases"}
    THEN (Len(st.docentes) + 1 - i) * (Len(st.clases) + 2)
         + (IF pc = "clases" THEN Len(queue) ELSE Len(st.clases) + 1)
    ELSE Len(queue)

\* the guard of some step holds: the two loops that have no exit step
\* of their own are never entered or left with nothing to visit
CanStep ==
    \/ pc \in {"start", "niveles", "fetch_nivel", "estado", "docentes",
                "eliminar", "finish"}
    \/ pc \in {"clases", "plan_removal"} /\ queue # <<>>

\* C5: every run ends, returning the triple or raising. Each step moves
\* to a later phase or leaves less work in its phase, and a run that has
\* neither returned nor raised can take a step; it raises only when the
\* catalog fetch failed, whatever other call failed before.
C5_Terminates ==
    /\ [][\/ PhaseIndex(pc') > PhaseIndex(pc)
          \/ PhaseIndex(pc') = PhaseIndex(pc) /\ Remaining' < Remaining]_vars
    /\ [](pc \in {"done", "raised"} \/ CanStep)
    /\ [](pc = "raised" => CatalogFailed)

C5_Witness ==
    /\ pc = "done"
    /\ \E k \in 1..Len(calls) : ~calls[k].ok /\ calls[k].op = "listar_staff"
    /\ HasCall("listar_clases", TRUE)

(* ------------------------------------------------------------------ *)
(* C6  Phase ordering                                                  *)
(* ------------------------------------------------------------------ *)
\* C6: the mutating calls and the actions of a run come in the order
\* assign-niveles, then activar/inactivar, then add, then remove.
C6_PhaseOrdering ==
    /\ \A a, b \in 1..Len(calls) :
           (a < b /\ calls[a].op \in MutatingOps /\ calls[b].op \in MutatingOps)
               => PhaseRank(calls[a].op) <= PhaseRank(calls[b].op)
    /\ \A a, b \in 1..Len(actions) :
           a < b => PhaseRank(actions[a].kind) <= PhaseRank(actions[b].kind)

C6_Witness ==
    /\ pc = "done"
    /\ \A op \in MutatingOps : HasCall(op, TRUE)

(* ------------------------------------------------------------------ *)
(* C7  Dry-run parity                                                  *)
(* ------------------------------------------------------------------ *)
ParityCounters ==
    {"niveles_asignados", "asignaciones_nuevas", "asignaciones_omitidas",
     "eliminaciones"}

EstadoCounters == {"estado_activaciones", "estado_inactivaciones"}

C8_MatcherSoundness ==
    \A k \in 1..Len(st.docente_matches) :
        \A m \in 1..Len(st.docente_matches[k]) :
            LET d == st.docentes[k]
                c == st.docente_matches[k][m]
            IN  /\ _normalize_course_text(BaseName(c.name))
                       = _normalize_course_text(d.curso)
                /\ c.level \in DOMAIN d.desired_by_level
                /\ d.grade_specific => c.grade \in d.desired_by_level[c.level]
                /\ d.section_filter # {} =>
                       <<c.level, c.grade, c.section>> \in d.section_filter

C8_Witness ==
    /\ pc = "docentes"
    /\ \E k \in 1..Len(st.docente_matches) :
           /\ st.docentes[k].section_filter # {}
           /\ st.docente_matches[k] # <<>>
           /\ \E n \in 1..Len(st.clases) :
                  /\ st.clases[n].base_norm = st.docentes[k].curso_norm
                  /\ st.clases[n].grade
                         \in st.docentes[k].desired_by_level[st.clases[n].level]
                  /\ st.clases[n] \notin Range(st.docente_matches[k])

(* ------------------------------------------------------------------ *)
(* C9  Add only when missing                                           *)
(* ------------------------------------------------------------------ *)
\* one visit of a matched class whose roster is known
C9_Visit ==
    (pc = "clases" /\ Len(calls') >= Len(calls)) =>
        LET persona_id == st.docentes[i].persona_id
            clase_id == Head(queue).id
            new == (Len(calls) + 1)..Len(calls')
            unknown == \E k \in new :
                           calls'[k].op = "listar_staff" /\ ~calls'[k].ok
            observed == calls'[CHOOSE k \in 1..Len(calls') :
                                  /\ calls'[k].op = "listar_staff"
                                  /\ calls'[k].target = clase_id
                                  /\ calls'[k].ok].arg
            earlier == \E k \in 1..Len(actions) :
                           /\ actions[k].kind = "asignar_profesor"
                           /\ actions[k].persona_id = persona_id
                           /\ actions[k].target = clase_id
                           /\ actions[k].outcome \in {"dry-run", "ok"}
            issued == /\ Len(actions') = Len(actions) + 1
                      /\ actions'[Len(actions')].kind = "asignar_profesor"
                      /\ actions'[Len(actions')].persona_id = persona_id
                      /\ actions'[Len(actions')].target = clase_id
            posted == \E k \in new :
                          /\ calls'[k].op = "asignar_profesor"
                          /\ calls'[k].persona_id = persona_id
                          /\ calls'[k].target = clase_id
        IN  ~unknown =>
                /\ issued <=> (persona_id \notin observed /\ ~earlier)
                /\ posted <=> (issued /\ ~env.opts.dry_run)
                /\ ~issued =>
                       /\ actions' = actions
                       /\ \A k \in new : calls'[k].op \notin MutatingOps
                       /\ summary'.asignaciones_omitidas
                              = summary.asignaciones_omitidas + 1

\* C9: for a matched (persona, class) pair whose roster is known, an add
\* is queued (dry run) or posted (apply) exactly when the persona is not
\* on the roster that was listed and no add of the pair was queued or
\* made earlier in the run; otherwise nothing is sent and the pair is
\* counted as omitted.
C9_AddOnlyWhenMissing == [][C9_Visit]_vars

C9_Witness ==
    /\ pc = "done"
    /\ summary.asignaciones_nuevas > 0
    /\ \E a, b \in 1..Len(st.docentes) :
           /\ a < b
           /\ st.docentes[a].persona_id = st.docentes[b].persona_id
           /\ \E c \in DOMAIN st.staff_cache :
                  /\ c \in {st.docente_matches[a][m].id :
                               m \in 1..Len(st.docente_matches[a])}
                  /\ c \in {st.docente_matches[b][m].id :
                               m \in 1..Len(st.docente_matches[b])}
                  /\ \E k \in 1..Len(actions) :
                         /\ actions[k].kind = "asignar_profesor"
                         /\ actions[k].target = c
                         /\ actions[k].persona_id = st.docentes[a].persona_id
                         /\ actions[k].outcome # "error"

(* ------------------------------------------------------------------ *)
(* C10  Surplus removal                                                *)
(* ------------------------------------------------------------------ *)
\* C10: with remove_missing, for every matched class whose roster was
\* listed, every persona on that roster who is not desired for the
\* class gets a remove, queued (dry run) or issued (apply).
C10_SurplusRemoved ==
    (pc = "done" /\ env.opts.remove_missing) =>
        \A c \in MatchedIds \cap DOMAIN st.staff_cache :
            \A p \in st.staff_cache[c] \ DesiredFor(c) :
                \E k \in 1..Len(actions) :
                    /\ actions[k].kind = "eliminar_profesor"
                    /\ actions[k].persona_id = p
                    /\ actions[k].target = c

(* ------------------------------------------------------------------ *)
(* C11  Estado sync                                                    *)
(* ------------------------------------------------------------------ *)
\* the (persona, level) pairs the Estado sync decides
EstadoPairs ==
    {pair \in Range(st.estado_by_persona.keys) \X NivelIds :
        pair[2] \in GetSet(st.estado_niveles_by_persona.val, pair[1])}

\* the flag the level roster that was listed shows, "None" when the
\* roster was not listed or does not list the persona
ObservedActive(p, n) ==
    IF n \in DOMAIN st.activos_por_nivel
       /\ p \in DOMAIN st.activos_por_nivel[n]
    THEN st.activos_por_nivel[n][p]
    ELSE "None"

EstadoEmitted(p, n) ==
    \E k \in 1..Len(actions) :
        /\ actions[k].kind = "activar_inactivar"
        /\ actions[k].persona_id = p
        /\ actions[k].target = n

\* the Estado loop is over
EstadoDecided == pc = "done" \/ PhaseIndex(pc) >= 4

\* C11: for every persona with a desired Estado and every target level
\* whose listed roster shows a flag for the persona, an Estado action is
\* emitted exactly when the flag differs from the desired one; a roster
\* that already shows the desired flag gets no action.
C11_EstadoSync ==
    EstadoDecided =>
        \A pair \in EstadoPairs :
            LET p == pair[1]
                n == pair[2]
            IN  ObservedActive(p, n) # "None" =>
                    (EstadoEmitted(p, n)
                        <=> ObservedActive(p, n) # st.estado_by_persona.val[p])

C11_Witness ==
    /\ pc = "done"
    /\ \E pair \in EstadoPairs :
           /\ ObservedActive(pair[1], pair[2]) = st.estado_by_persona.val[pair[1]]
           /\ ~EstadoEmitted(pair[1], pair[2])
    /\ \E pair \in EstadoPairs :
           /\ ObservedActive(pair[1], pair[2]) # "None"
           /\ ObservedActive(pair[1], pair[2]) # st.estado_by_persona.val[pair[1]]
           /\ EstadoEmitted(pair[1], pair[2])

(* ------------------------------------------------------------------ *)
(* C12  Parse round-trip                                               *)
(* ------------------------------------------------------------------ *)
\* decimal digits of a grade below 100
RenderGrade(g) ==
    IF g < 10 THEN <<DigitChars[g + 1]>>
    ELSE <<DigitChars[(g \div 10) + 1], DigitChars[(g % 10) + 1]>>

\* <grade><level><section>
Render(p) == RenderGrade(p[1]) \o <<p[2], p[3]>>

TrailingToken(name) ==
    LET words == str_split(str_strip(name)) IN words[Len(words)]

\* the name was parsed and its trailing token accepted
Accepted == pc = "parsed" /\ st.parsed \notin {None, IndexError}

\* C12 as stated: the triple extracted from an accepted name, rendered
\* as <grade><level><section>, is the trailing token up to letter case.
C12_RoundTrip ==
    Accepted => Render(st.parsed) = str_upper(TrailingToken(env.name))

\* C12, amended: the trailing token of an accepted name, without its
\* non-alphanumeric characters and in upper case, is
\* <grade><level><section> or <level><grade><section>, the grade
\* possibly written with one leading zero; the rendering
\* <grade><level><section> of the triple parses to the same triple.
C12_RoundTripCanonical ==
    Accepted =>
        LET p == st.parsed
            cleaned == str_upper(OnlyAlnum(TrailingToken(env.name)))
            digits == {RenderGrade(p[1])}
                      \cup (IF p[1] < 10 THEN {<<"0">> \o RenderGrade(p[1])}
                            ELSE {})
        IN  /\ cleaned \in {d \o <<p[2], p[3]>> : d \in digits}
                           \cup {<<p[2]>> \o d \o <<p[3]>> : d \in digits}
            /\ _parse_class_suffix(Render(p)) = p

C12_Witness ==
    /\ Accepted
    /\ Len(str_split(env.name)) = 2
    /\ st.parsed[1] = 3
    /\ Render(st.parsed) # str_upper(TrailingToken(env.name))

(* ------------------------------------------------------------------ *)
(* C13  Run-scoped roster cache                                        *)
(* ------------------------------------------------------------------ *)
\* the positions of the roster listings of a class in this run's calls
StaffFetches(clase_id) ==
    {k \in 1..Len(calls) :
        calls[k].op = "listar_staff" /\ calls[k].target = clase_id}

\* C13: within one run the roster of a class is listed at most once,
\* whether or not an earlier listing failed and whether or not the
\* removal phase needs the roster too.
C13_RosterFetchedOnce ==
    \A clase_id \in ClaseIds : Cardinality(StaffFetches(clase_id)) <= 1

\* the weaker property the cache does give: a class is listed again only
\* after every earlier listing of it failed
C13_RefetchOnlyAfterFailure ==
    \A clase_id \in ClaseIds :
        \A j, k \in StaffFetches(clase_id) : j < k => ~calls[j].ok

(* ------------------------------------------------------------------ *)
(* C14  Duplicate (persona, class) pairs                               *)
(* ------------------------------------------------------------------ *)
\* the positions of the add calls of a pair in this run's calls
AddCalls(persona_id, clase_id) ==
    {k \in 1..Len(calls) :
        /\ calls[k].op = "asignar_profesor"
        /\ calls[k].persona_id = persona_id
        /\ calls[k].target = clase_id}

\* C14: within one run at most one add call is issued for a
\* (persona, class) pair, also when several rows produce the pair and
\* the first add call for it failed.
C14_OneAddPerPair ==
    \A persona_id \in 1..9, clase_id \in ClaseIds :
        Cardinality(AddCalls(persona_id, clase_id)) <= 1

\* what the roster bookkeeping does give: a pair is added again only
\* after every earlier add call for it failed
C14_AddRepeatedOnlyAfterFailure ==
    \A persona_id \in 1..9, clase_id \in ClaseIds :
        \A j, k \in AddCalls(persona_id, clase_id) : j < k => ~calls[j].ok

(* ------------------------------------------------------------------ *)
(* C15  Unknown activation                                             *)
(* ------------------------------------------------------------------ *)
\* the level roster was listed and does not list the persona
AbsentFromRoster(p, n) ==
    n \in DOMAIN st.activos_por_nivel /\ p \notin DOMAIN st.activos_por_nivel[n]

\* the level roster could not be listed and the error was recorded
RosterFetchFailed(n) ==
    /\ n \notin DOMAIN st.activos_por_nivel
    /\ \E k \in 1..Len(errors) :
           errors[k].tipo = "listar_profesores_nivel" /\ errors[k].target = n

\* C15: when the activation of a (persona, level) pair is unknown, the
\* persona being absent from the level roster or the roster listing
\* having failed with a recorded listar_profesores_nivel error, an
\* Estado action for the pair is emitted whatever the desired value.
C15_UnknownIsMismatch ==
    EstadoDecided =>
        \A pair \in EstadoPairs :
            AbsentFromRoster(pair[1], pair[2]) \/ RosterFetchFailed(pair[2])
                => EstadoEmitted(pair[1], pair[2])

C15_Witness ==
    /\ pc = "done"
    /\ \E pair \in EstadoPairs :
           /\ RosterFetchFailed(pair[2])
           /\ EstadoEmitted(pair[1], pair[2])
    /\ \E pair \in EstadoPairs :
           /\ AbsentFromRoster(pair[1], pair[2])
           /\ st.estado_by_persona.val[pair[1]] = "False"
           /\ EstadoEmitted(pair[1], pair[2])

(* ------------------------------------------------------------------ *)
(* C16  Desired personas are never removed                             *)
(* ------------------------------------------------------------------ *)
\* the (persona, class) pairs of the actions of a kind, failed ones too
ActedPairs(kind) ==
    {<<actions[k].persona_id, actions[k].target>> :
        k \in {j \in 1..Len(actions) : actions[j].kind = kind}}

\* the (persona, class) pairs queued for removal
QueuedRemovals ==
    {<<st.pending_removals[k].persona_id, st.pending_removals[k].clase_id>> :
        k \in 1..Len(st.pending_removals)}

\* C16: with remove_missing, no persona that a desired assignment of this
\* run matched to a class, be it already on the roster, newly added or
\* with a failed add, is queued for removal or removed from that class;
\* so no (persona, class) pair is both added and removed in one run.
C16_DesiredNeverRemoved ==
    /\ \A pair \in QueuedRemovals \cup ActedPairs("eliminar_profesor") :
           pair[1] \notin DesiredFor(pair[2])
    /\ ActedPairs("asignar_profesor") \cap
           (QueuedRemovals \cup ActedPairs("eliminar_profesor")) = {}

C16_Witness ==
    /\ pc = "done" /\ env.opts.remove_missing
    /\ \E k \in 1..Len(actions) :
           /\ actions[k].kind = "asignar_profesor"
           /\ actions[k].outcome = "error"
           /\ \E pair \in ActedPairs("eliminar_profesor") :
                  pair[2] = actions[k].target
    /\ \E c \in ClaseIds : \E p \in DesiredFor(c) :
           /\ p \in remote.staff[c]
           /\ <<p, c>> \notin ActedPairs("asignar_profesor")
           /\ \E pair \in ActedPairs("eliminar_profesor") : pair[2] = c

(* ------------------------------------------------------------------ *)
(* C17  Catalog descriptor invariant                                   *)
(* ------------------------------------------------------------------ *)
GradeInRange(clase) == clase.grade \in ALL_GRADES_BY_LEVEL[clase.level]

\* C17: every class _fetch_clases admits has a level in {I, P, S}, one
\* uppercase section letter and a grade in the valid range of its level;
\* a class with a grade outside the range is matched by no docente, a
\* level-general one included.
C17_CatalogDescriptor ==
    pc = "matched" =>
        /\ \A k \in 1..Len(st.clases) :
               /\ st.clases[k].level \in {"I", "P", "S"}
               /\ IsUpperCh(st.clases[k].section)
               /\ GradeInRange(st.clases[k])
        /\ \A k \in 1..Len(st.matches) : GradeInRange(st.matches[k])

\* the part of the descriptor the grammar does guarantee: the level, the
\* section letter and a grade of at most two digits
C17_DescriptorShape ==
    pc = "matched" =>
        \A k \in 1..Len(st.clases) :
            /\ st.clases[k].level \in {"I", "P", "S"}
            /\ IsUpperCh(st.clases[k].section)
            /\ st.clases[k].grade \in 0..99

(* ------------------------------------------------------------------ *)
(* C18  Matcher completeness and fan-out                               *)
(* ------------------------------------------------------------------ *)
\* conditions (a) to (d) of the matcher for a docente and a catalog class
Satisfies(d, c) ==
    /\ _normalize_course_text(BaseName(c.name)) = _normalize_course_text(d.curso)
    /\ c.level \in DOMAIN d.desired_by_level
    /\ d.grade_specific => c.grade \in d.desired_by_level[c.level]
    /\ d.section_filter # {} =>
           <<c.level, c.grade, c.section>> \in d.section_filter

\* every catalog class that satisfies (a) to (d) is returned for the
\* docente; a level-general docente without section filter gets every
\* class of its course and level
MatcherComplete ==
    \A k \in 1..Len(st.docente_matches) :
        LET d == st.docentes[k] IN
        /\ \A n \in 1..Len(st.clases) :
               Satisfies(d, st.clases[n])
                   => st.clases[n] \in Range(st.docente_matches[k])
        /\ (~d.grade_specific /\ d.section_filter = {}) =>
               \A n \in 1..Len(st.clases) :
                   (/\ st.clases[n].base_norm = d.curso_norm
                    /\ st.clases[n].level \in DOMAIN d.desired_by_level)
                       => st.clases[n] \in Range(st.docente_matches[k])

\* the successful roster listings of a class in this run
Listings(clase_id) == {k \in StaffFetches(clase_id) : calls[k].ok}

\* the roster of the class as the run first listed it
ListedRoster(clase_id) ==
    calls[CHOOSE k \in Listings(clase_id) :
              \A j \in Listings(clase_id) : k <= j].arg

\* the add actions of a pair, failed and planned ones included
AddActions(persona_id, clase_id) ==
    {k \in 1..Len(actions) :
        /\ actions[k].kind = "asignar_profesor"
        /\ actions[k].persona_id = persona_id
        /\ actions[k].target = clase_id}

\* every matched class whose listed roster lacks the persona has exactly
\* one add for the persona
FanOut ==
    pc = "done" =>
        \A clase_id \in MatchedIds :
            Listings(clase_id) # {} =>
                \A persona_id \in DesiredFor(clase_id) \ ListedRoster(clase_id) :
                    Cardinality(AddActions(persona_id, clase_id)) = 1

\* C18: the matcher returns every catalog class satisfying (a) equal
\* base name, (b) desired level, (c) desired grade when grade-specific,
\* (d) section filter when not empty, so a level-general row matches all
\* classes of its course and level; and each matched class whose roster
\* lacks the persona yields exactly one add.
C18_CompleteAndFanOut == MatcherComplete /\ FanOut

\* without a failed remote call the fan-out is exact
C18_FanOutWithoutFailures == fails = 0 => FanOut

(* ------------------------------------------------------------------ *)
(* C19  Level sync keyed by persona                                    *)
(* ------------------------------------------------------------------ *)
\* the level ids desired by all loaded rows of a persona
NivelesDeseados(persona_id) ==
    {LEVEL_ID_BY_LETTER[l] :
        l \in UNION {DOMAIN st.docentes[k].desired_by_level :
                        k \in {j \in 1..Len(st.docentes) :
                                  st.docentes[j].persona_id = persona_id}}}

NivelActions(persona_id) ==
    {k \in 1..Len(actions) :
        actions[k].kind = "asignar_nivel" /\ actions[k].persona_id = persona_id}

\* C19: within one run at most one assign-niveles action is issued per
\* persona, and the call carries the union of the level ids desired by all
\* rows of the persona, however many rows or course tokens repeat a level.
C19_LevelSyncPerPersona ==
    /\ \A k \in 1..Len(actions) :
           Cardinality(NivelActions(actions[k].persona_id)) <= 1
    /\ \A k \in 1..Len(calls) :
           calls[k].op = "asignar_nivel"
               => calls[k].arg = NivelesDeseados(calls[k].persona_id)

C19_Witness ==
    /\ pc = "done"
    /\ \E k \in 1..Len(calls) :
           /\ calls[k].op = "asignar_nivel"
           /\ Cardinality(calls[k].arg) = 2
           /\ Cardinality({j \in 1..Len(st.docentes) :
                              st.docentes[j].persona_id = calls[k].persona_id}) = 3
           /\ Cardinality(NivelActions(calls[k].persona_id)) = 1

(* ------------------------------------------------------------------ *)
(* C20  Grade-specific precedence                                      *)
(* ------------------------------------------------------------------ *)
\* the grade columns and the level-general columns of the row marked truthy
TruthyGradeCols ==
    {col \in DOMAIN env.row.grades :
        _normalize_value(env.row.grades[col]) \in TRUTHY_VALUES}

TruthyLevelCols ==
    {l \in DOMAIN env.row.levels :
        _normalize_value(env.row.levels[l]) \in TRUTHY_VALUES}

\* desired_by_level as a set of <<level, grade>> pairs
DesiredPairs(desired_by_level) ==
    UNION {{<<l, g>> : g \in desired_by_level[l]} : l \in DOMAIN desired_by_level}

\* C20: when a grade column of the row is truthy, desired_by_level holds
\* exactly the (level, grade) pairs of the truthy grade columns and the
\* truthy level-general columns are ignored; otherwise every truthy
\* level-general column gives the whole grade range of its level and the
\* result is not grade-specific.
C20_GradeSpecificPrecedence ==
    pc = "extracted" =>
        LET res == st.extracted IN
        IF TruthyGradeCols # {}
        THEN /\ res.grade_specific
             /\ DesiredPairs(res.desired_by_level) = TruthyGradeCols
             /\ \A l \in DOMAIN res.desired_by_level : res.desired_by_level[l] # {}
        ELSE /\ ~res.grade_specific
             /\ DOMAIN res.desired_by_level = TruthyLevelCols
             /\ \A l \in TruthyLevelCols :
                    res.desired_by_level[l] = ALL_GRADES_BY_LEVEL[l]

C20_Witness ==
    /\ pc = "extracted"
    /\ TruthyGradeCols = {<<"P", 3>>}
    /\ TruthyLevelCols = {"P", "S"}
    /\ st.extracted.desired_by_level = [l \in {"P"} |-> {3}]

(* ------------------------------------------------------------------ *)
(* C21  DesiredAssignment invariant                                    *)
(* ------------------------------------------------------------------ *)
\* C21: every docente _load_docentes produces has persona_id > 0; when
\* its section_filter is not empty it is grade-specific and every
\* (level, grade, section) of the filter has its level as a key of
\* desired_by_level with the grade in the set of that level.
C21_DesiredAssignment ==
    pc = "loaded" =>
        \A k \in 1..Len(st.docentes) :
            LET d == st.docentes[k] IN
            /\ d.persona_id > 0
            /\ d.section_filter # {} =>
                   /\ d.grade_specific
                   /\ \A t \in d.section_filter :
                          /\ t[1] \in DOMAIN d.desired_by_level
                          /\ t[2] \in d.desired_by_level[t[1]]

C21_Witness ==
    /\ pc = "loaded"
    /\ \E k \in 1..Len(st.docentes) :
           /\ st.docentes[k].persona_id = 3
           /\ st.docentes[k].section_filter = {<<"S", 1, "B">>}
           /\ DOMAIN st.docentes[k].desired_by_level = {"P", "S"}
    /\ \E k \in 1..Len(env.rows) : _parse_persona_id(env.rows[k].persona_id) = 0

(* ------------------------------------------------------------------ *)
(* C22  Row scanning                                                   *)
(* ------------------------------------------------------------------ *)
\* every cell of the row is blank
EntirelyBlank(row) ==
    /\ str_strip(row.persona_id) = <<>> /\ str_strip(row.curso) = <<>>
    /\ str_strip(row.Estado) = <<>> /\ str_strip(row.Secciones) = <<>>
    /\ \A col \in DOMAIN row.grades : str_strip(row.grades[col]) = <<>>
    /\ \A l \in DOMAIN row.levels : str_strip(row.levels[l]) = <<>>

\* the row has no usable persona_id, no course, Estado or Secciones text
\* and no truthy mark
NothingUsable(row) ==
    /\ _parse_persona_id(row.persona_id) \in {NoPersona, 0}
    /\ _normalize_value(row.curso) = <<>>
    /\ _normalize_value(row.Estado) = <<>>
    /\ _normalize_value(row.Secciones) = <<>>
    /\ \A col \in DOMAIN row.grades :
           _normalize_value(row.grades[col]) \notin TRUTHY_VALUES
    /\ \A l \in DOMAIN row.levels :
           _normalize_value(row.levels[l]) \notin TRUTHY_VALUES

\* the row lacks persona_id, or a course token where one is required
RowInvalid(row) ==
    \/ _parse_persona_id(row.persona_id) \in {NoPersona, 0}
    \/ env.require_curso /\ _split_courses(str_strip(row.curso)) = <<>>

\* the table ends at the first row that Ends holds of: rows from there on
\* give no docente, no warning and no invalid count; every invalid row
\* before it gives no docente, one warning and one invalid count
RowScanning(Ends(_)) ==
    pc = "loaded" =>
        LET stops == {k \in 1..Len(env.rows) : Ends(env.rows[k])}
            scanned == IF stops = {} THEN Len(env.rows)
                       ELSE (CHOOSE k \in stops : \A j \in stops : k <= j) - 1
            invalid == {k \in 1..scanned : RowInvalid(env.rows[k])}
        IN  /\ {st.docentes[k].row : k \in 1..Len(st.docentes)}
                   = {k + 1 : k \in (1..scanned) \ invalid}
            /\ st.invalidos = Cardinality(invalid)
            /\ {st.warnings[k].row : k \in {j \in 1..Len(st.warnings) :
                                              st.warnings[j].kind = "falta"}}
                   = {k + 1 : k \in invalid}
            /\ \A k \in 1..Len(st.warnings) : st.warnings[k].row <= scanned + 1

\* C22 as stated: only an entirely blank row ends the table; rows after
\* the first such row contribute no assignment, warning or invalid count;
\* before it every row missing persona_id or a required course token
\* yields no assignment and exactly one invalid count.
C22_EndsAtBlankRow == RowScanning(EntirelyBlank)

\* C22, amended: the table ends at the first row with nothing usable (no
\* persona_id, no course, Estado or Secciones text, no truthy mark), be
\* it entirely blank or not; the rest as stated.
C22_EndsAtUnusableRow == RowScanning(NothingUsable)

C22_Witness ==
    /\ pc = "loaded" /\ Len(env.rows) = 3
    /\ RowInvalid(env.rows[1]) /\ ~NothingUsable(env.rows[1])
    /\ NothingUsable(env.rows[2]) /\ ~EntirelyBlank(env.rows[2])
    /\ ~RowInvalid(env.rows[3])
    /\ st.docentes = <<>> /\ st.invalidos = 1

(* ------------------------------------------------------------------ *)
(* C30  Conflicting Estado values                                      *)
(* ------------------------------------------------------------------ *)
\* the docentes of the persona that carry a parseable Estado
WithEstado(p) ==
    {k \in 1..Len(st.docentes) :
        st.docentes[k].persona_id = p /\ st.docentes[k].estado # "None"}

FirstWithEstado(p) ==
    CHOOSE k \in WithEstado(p) : \A j \in WithEstado(p) : k <= j

\* the later docentes of the persona whose Estado differs from the first
Conflicting(p) ==
    {k \in WithEstado(p) :
        st.docentes[k].estado # st.docentes[FirstWithEstado(p)].estado}

EstadoWarned(p) ==
    Cardinality({j \in 1..Len(st.estado.warnings) : st.estado.warnings[j] = p})

\* the value kept for a persona is that of its first row with a parseable
\* Estado, whatever later rows say, and a persona has one entry
FirstEstadoKept ==
    /\ DOMAIN st.estado.val
           = {st.docentes[k].persona_id :
                 k \in {j \in 1..Len(st.docentes) :
                           st.docentes[j].estado # "None"}}
    /\ \A p \in DOMAIN st.estado.val :
           st.estado.val[p] = st.docentes[FirstWithEstado(p)].estado
    /\ \A j, k \in 1..Len(st.estado.keys) :
           st.estado.keys[j] = st.estado.keys[k] => j = k

\* C30 as stated: with different Estado values on several rows of a
\* persona, the first parseable one is kept and never overwritten, a
\* persona has one desired value, and one warning is recorded per
\* conflicting later row.
C30_OneWarningPerRow ==
    pc = "loaded" =>
        /\ FirstEstadoKept
        /\ \A p \in DOMAIN st.estado.val :
               EstadoWarned(p)
                   = Cardinality({st.docentes[k].row : k \in Conflicting(p)})

\* C30, amended: the same, with one warning per course token of each
\* conflicting later row, since every course token of a row is a docente
\* of its own.
C30_OneWarningPerDocente ==
    pc = "loaded" =>
        /\ FirstEstadoKept
        /\ \A p \in DOMAIN st.estado.val :
               EstadoWarned(p) = Cardinality(Conflicting(p))
        /\ \A j \in 1..Len(st.estado.warnings) :
               st.estado.warnings[j] \in DOMAIN st.estado.val

C30_Witness ==
    /\ pc = "loaded"
    /\ \E p \in DOMAIN st.estado.val :
           /\ st.estado.val[p] = "False"
           /\ EstadoWarned(p) = 2
           /\ Cardinality({st.docentes[k].row : k \in Conflicting(p)}) = 1
           /\ \E k \in 1..Len(st.docentes) :
                  /\ st.docentes[k].persona_id = p
                  /\ st.docentes[k].estado = "None"
                  /\ k < FirstWithEstado(p)

(* ------------------------------------------------------------------ *)
(* C23  Progress reporting                                             *)
(* ------------------------------------------------------------------ *)
Phases == {"niveles", "estado", "asignar", "eliminar"}

\* the invocations of the progress callback for a phase, in order
ProgressOf(phase) == SelectSeq(progress, LAMBDA e : e[1] = phase)

KindOf(phase) ==
    CASE phase = "niveles" -> "asignar_nivel"
      [] phase = "estado" -> "activar_inactivar"
      [] phase = "asignar" -> "asignar_profesor"
      [] phase = "eliminar" -> "eliminar_profesor"

ActionsOf(phase) == SelectSeq(actions, LAMBDA a : a.kind = KindOf(phase))

Returned == pc \in {"done", "raised"}

\* current counts 1, 2, 3, ... within the phase, never exceeds total, and
\* equals total at the last invocation once the run is over
ProgressCounts ==
    \A phase \in Phases :
        LET calls_ == ProgressOf(phase) IN
        /\ \A k \in 1..Len(calls_) :
               calls_[k][2] = k /\ calls_[k][2] <= calls_[k][3]
        /\ (Returned /\ calls_ # <<>>)
               => calls_[Len(calls_)][2] = calls_[Len(calls_)][3]

\* C23 as stated: within each phase the callback is invoked exactly once
\* per action of the phase, with current 1, 2, 3, ... in order, never
\* above total, and equal to total at the last invocation of a phase
\* that is not empty.
C23_OncePerAction ==
    /\ ProgressCounts
    /\ (Returned /\ env.opts.on_progress) =>
           \A phase \in Phases :
               Len(ProgressOf(phase)) = Len(ActionsOf(phase))

\* C23, amended: the counting as stated; the callback is invoked once per
\* action in the niveles, estado and eliminar phases, and in the asignar
\* phase once per matched (docente, class) pair, whether the pair yields
\* an add, is already assigned or its roster listing fails.
C23_OncePerStep ==
    /\ ProgressCounts
    /\ (Returned /\ env.opts.on_progress) =>
           /\ \A phase \in Phases \ {"asignar"} :
                  Len(ProgressOf(phase)) = Len(ActionsOf(phase))
           /\ Len(ProgressOf("asignar")) = summary.clases_encontradas
           /\ Len(ActionsOf("asignar")) <= Len(ProgressOf("asignar"))

C23_Witness ==
    /\ pc = "done"
    /\ Len(ProgressOf("asignar")) = 2
    /\ Len(ActionsOf("asignar")) = 1
    /\ Len(ProgressOf("eliminar")) = 1
    /\ Len(ProgressOf("niveles")) = 1
    /\ Len(ProgressOf("estado")) = 1

(* ------------------------------------------------------------------ *)
(* C24  Observer non-interference                                      *)
(* ------------------------------------------------------------------ *)
\* the remove actions of the run are the planned removals, in order, and
\* each is counted as removed or as an error
RemovalsFollowPlan ==
    /\ [k \in 1..Len(ActionsOf("eliminar")) |->
           <<ActionsOf("eliminar")[k].persona_id, ActionsOf("eliminar")[k].target>>]
       = [k \in 1..Len(st.pending_removals) |->
           <<st.pending_removals[k].persona_id, st.pending_removals[k].clase_id>>]
    /\ summary.eliminaciones
           + Cardinality({k \in 1..Len(errors) :
                             errors[k].tipo = "eliminar_profesor"})
       = Len(st.pending_removals)

\* C24: the calls, counters and errors of a run do not depend on the
\* callbacks being supplied; in particular the removal phase issues the
\* remove actions of its plan with and without an on_progress callback.
C24_ObserverNonInterference == pc = "done" => RemovalsFollowPlan

\* with the callback the plan is carried out
C24_RemovalsWithCallback ==
    (pc = "done" /\ env.opts.on_progress) => RemovalsFollowPlan

(* ------------------------------------------------------------------ *)
(* C25  No mutation before the fatal precondition                      *)
(* ------------------------------------------------------------------ *)
\* C25: when the class-catalog fetch fails and the run raises, no
\* mutating remote call (assign niveles, activar/inactivar, add, remove)
\* was issued earlier in the run.
C25_NoMutationBeforeRaise ==
    pc = "raised" => \A k \in 1..Len(calls) : calls[k].op \notin MutatingOps

\* what the order of the phases does give: a run that raises has issued
\* no add and no remove, and the failed catalog fetch is its last call
C25_NoRosterChangeBeforeRaise ==
    pc = "raised" =>
        /\ \A k \in 1..Len(calls) :
               calls[k].op \notin {"asignar_profesor", "eliminar_profesor"}
        /\ calls[Len(calls)].op = "listar_clases" /\ ~calls[Len(calls)].ok

(* ------------------------------------------------------------------ *)
(* C26  Outcome accounting                                             *)
(* ------------------------------------------------------------------ *)
ErrorsOf(tipo) == SelectSeq(errors, LAMBDA e : e.tipo = tipo)

\* the roster listing errors of the assignment phase name the persona of
\* the docente; those of the removal phase name none
StaffErrorsAsignar ==
    SelectSeq(errors, LAMBDA e : e.tipo = "listar_staff" /\ e.persona_id # 0)

\* C26: when a run that reached the class phase returns, every matched
\* (docente, class) pair has one outcome: clases_encontradas is
\* asignaciones_nuevas + asignaciones_omitidas + the asignar_profesor
\* errors + the listar_staff errors of the assignment phase.
C26_OutcomeAccounting ==
    pc = "done" =>
        summary.clases_encontradas
            = summary.asignaciones_nuevas + summary.asignaciones_omitidas
              + Len(ErrorsOf("asignar_profesor")) + Len(StaffErrorsAsignar)

C26_Witness ==
    /\ pc = "done"
    /\ summary.clases_encontradas = 3
    /\ summary.asignaciones_omitidas >= 1
    /\ summary.asignaciones_nuevas >= 1
    /\ Len(ErrorsOf("asignar_profesor")) + Len(StaffErrorsAsignar) = 1

(* ------------------------------------------------------------------ *)
(* C27  Error counter consistency                                      *)
(* ------------------------------------------------------------------ *)
\* C27: wherever the run returns, errores_api is the length of the
\* returned error list, whatever remote calls succeeded or failed.
C27_ErrorCounter == pc = "done" => summary.errores_api = Len(errors)

\* every failed remote call of a run that returned has its error record
C27_Witness ==
    /\ pc = "done" /\ fails = MaxFail
    /\ summary.errores_api = 1
    /\ errors[1].tipo = "listar_profesores_nivel"

(* ------------------------------------------------------------------ *)
(* C28  Cache frame condition                                          *)
(* ------------------------------------------------------------------ *)
\* the personas a step added to the class with a successful add call
AddedBy(first, last, clase_id) ==
    {calls'[k].persona_id :
        k \in {j \in first..last : /\ calls'[j].op = "asignar_profesor"
                                   /\ calls'[j].target = clase_id
                                   /\ calls'[j].ok}}

\* the rosters a step listed for the class
ListedBy(first, last, clase_id) ==
    {calls'[k].arg :
        k \in {j \in first..last : /\ calls'[j].op = "listar_staff"
                                   /\ calls'[j].target = clase_id
                                   /\ calls'[j].ok}}

\* C28: the cached roster of a class changes only by the insertion of
\* persona p right after a successful add call of p to the class; a
\* dry-run step, a failed add, a failed roster listing and a remove call
\* leave every cached roster as it was; a roster enters the cache as the
\* service listed it.
C28_CacheFrame ==
    [][\A clase_id \in ClaseIds :
          LET first == Len(calls) + 1
              last == Len(calls')
              added == AddedBy(first, last, clase_id)
          IN  /\ Cardinality(added) <= 1
              /\ clase_id \in DOMAIN st.staff_cache =>
                     /\ clase_id \in DOMAIN st'.staff_cache
                     /\ st'.staff_cache[clase_id]
                            = st.staff_cache[clase_id] \cup added
              /\ (clase_id \notin DOMAIN st.staff_cache
                  /\ clase_id \in DOMAIN st'.staff_cache) =>
                     \E roster \in ListedBy(first, last, clase_id) :
                         st'.staff_cache[clase_id] = roster \cup added]_vars

C28_Witness ==
    /\ pc = "done" /\ ~env.opts.dry_run
    /\ \E clase_id \in DOMAIN st.staff_cache :
           /\ st.staff_cache[clase_id] # ListedRoster(clase_id)
           /\ \E k \in 1..Len(calls) :
                  /\ calls[k].op = "eliminar_profesor" /\ calls[k].ok
                  /\ calls[k].target = clase_id
                  /\ calls[k].persona_id \in st.staff_cache[clase_id]
    /\ \E k \in 1..Len(calls) : calls[k].op = "asignar_profesor" /\ ~calls[k].ok

(* ------------------------------------------------------------------ *)
(* C29: teachers missing from the spreadsheet are deactivated          *)
(* ------------------------------------------------------------------ *)
\* the listed teachers whose iteration of sync_profesores is over
Synced == {k \in 1..Len(env.profesores_api) : pc \in {"sync", "done"} /\ k < i}

SyncActionsOf(kind, k) ==
    {j \in 1..Len(actions) :
        actions[j].kind = kind /\ actions[j].persona_id = k}

SyncTargets(kind, k) == {actions[j].target : j \in SyncActionsOf(kind, k)}

ActiveLevels(k) ==
    {n \in DOMAIN env.profesores_api[k].niveles_activos :
        env.profesores_api[k].niveles_activos[n]}

\* the levels the spreadsheet groups of a matched teacher mark
Asked(k) == env.desired_by_persona[k]

\* the levels the run takes as desired: the marked ones, the current ones
\* of the teacher when the groups mark none
TakenAsDesired(k) ==
    IF Asked(k) # {} THEN Asked(k)
    ELSE IF env.profesores_api[k].niveles_detalle # {}
    THEN env.profesores_api[k].niveles_detalle
    ELSE IF env.profesores_api[k].niveles_detalle_activos # {}
    THEN env.profesores_api[k].niveles_detalle_activos
    ELSE env.profesores_api[k].niveles_presentes

\* a teacher no group matched: one deactivate per active level, nothing else
UnmatchedDeactivated(k) ==
    /\ SyncTargets("inactivar", k) = ActiveLevels(k)
    /\ Cardinality(SyncActionsOf("inactivar", k)) = Cardinality(ActiveLevels(k))
    /\ SyncActionsOf("activar", k) = {}
    /\ SyncActionsOf("asignar_nivel", k) = {}

MatchedReconciled(k, desired) ==
    /\ SyncTargets("activar", k) \subseteq desired \ ActiveLevels(k)
    /\ SyncTargets("inactivar", k) \subseteq ActiveLevels(k) \ desired

\* C29 (as stated): after the iteration of a listed teacher, a teacher that
\* no spreadsheet group matches has a deactivate action for exactly its
\* active levels and no assign-niveles or activate action; a matched
\* teacher has activate actions only for levels its groups mark that are
\* not active and deactivate actions only for active levels its groups do
\* not mark.
C29_MarkedLevelsOnly ==
    \A k \in Synced :
        IF k \in DOMAIN env.desired_by_persona
        THEN MatchedReconciled(k, Asked(k))
        ELSE UnmatchedDeactivated(k)

\* C29 (amended): the same, the desired levels of a matched teacher whose
\* groups mark no level being the teacher's current levels (those of the
\* detail record, else the levels that list the teacher).
C29_DesiredOrCurrentLevels ==
    \A k \in Synced :
        IF k \in DOMAIN env.desired_by_persona
        THEN MatchedReconciled(k, TakenAsDesired(k))
        ELSE UnmatchedDeactivated(k)

\* a finished run that deactivated an unmatched active teacher and
\* activated a matched teacher whose group marks no level
C29_Witness ==
    /\ pc = "done" /\ env.kind = "sync"
    /\ \E k \in Synced :
          /\ k \notin DOMAIN env.desired_by_persona
          /\ SyncTargets("inactivar", k) # {}
    /\ \E m \in Synced :
          /\ m \in DOMAIN env.desired_by_persona
          /\ Asked(m) = {}
          /\ SyncTargets("activar", m) # {}

====
